---- MODULE Spec2Model ----
(***************************************************************************)
(* Verification model of serato-connect: the Serato32 and line-wrapped     *)
(* base64 codecs, the Markers2 entry walker, and the history, crate and    *)
(* database chunk walkers.                                                 *)
(*                                                                         *)
(* Buffers are sequences of byte values 0..255 (1-based here, 0-based in   *)
(* the source: source offset k is element k+1).  Strings are sequences of  *)
(* character codes.  A call that throws is modelled by a result whose      *)
(* `raised` field is TRUE.                                                 *)
(***************************************************************************)
EXTENDS Integers, Sequences, FiniteSets, TLC

VARIABLES pc, input, mid, output

vars == <<pc, input, mid, output>>

(***************************************************************************)
(* Bit operations of JavaScript on small non-negative integers.            *)
(***************************************************************************)
RECURSIVE BitAnd(_, _)
BitAnd(x, y) ==
  IF x = 0 \/ y = 0 THEN 0
  ELSE (x % 2) * (y % 2) + 2 * BitAnd(x \div 2, y \div 2)

RECURSIVE BitOr(_, _)
BitOr(x, y) ==
  IF x = 0 THEN y
  ELSE IF y = 0 THEN x
  ELSE (IF x % 2 = 1 \/ y % 2 = 1 THEN 1 ELSE 0) + 2 * BitOr(x \div 2, y \div 2)

Shl(x, n) == x * (2 ^ n)

Shr(x, n) == x \div (2 ^ n)

(***************************************************************************)
(* encoding/serato32.ts                                                    *)
(***************************************************************************)
decode(enc1, enc2, enc3, enc4) ==
  LET dec3 == BitOr(BitAnd(enc4, 127), Shl(BitAnd(enc3, 1), 7))
      dec2 == BitOr(Shr(BitAnd(enc3, 127), 1), Shl(BitAnd(enc2, 3), 6))
      dec1 == BitOr(Shr(BitAnd(enc2, 127), 2), Shl(BitAnd(enc1, 7), 5))
  IN  <<dec1, dec2, dec3>>

\* encode with the carry of dec3's top bit into enc3 forgotten
encodeNoCarry(dec1, dec2, dec3) ==
  LET enc4 == BitAnd(dec3, 127)
      enc3 == BitAnd(Shl(dec2, 1), 127)
      enc2 == BitAnd(BitOr(Shr(dec2, 6), Shl(dec1, 2)), 127)
      enc1 == Shr(dec1, 5)
  IN  <<enc1, enc2, enc3, enc4>>

encode(dec1, dec2, dec3) ==
  LET enc4 == BitAnd(dec3, 127)
      enc3 == BitAnd(BitOr(Shr(dec3, 7), Shl(dec2, 1)), 127)
      enc2 == BitAnd(BitOr(Shr(dec2, 6), Shl(dec1, 2)), 127)
      enc1 == Shr(dec1, 5)
  IN  <<enc1, enc2, enc3, enc4>>

Ok(bytes) == [raised |-> FALSE, bytes |-> bytes]

Raised == [raised |-> TRUE, bytes |-> <<>>]

RECURSIVE decodeGroups(_, _)
decodeGroups(buf, i) ==
  IF i >= Len(buf) THEN <<>>
  ELSE decode(buf[i + 1], buf[i + 2], buf[i + 3], buf[i + 4]) \o decodeGroups(buf, i + 4)

RECURSIVE encodeGroups(_, _)
encodeGroups(buf, i) ==
  IF i >= Len(buf) THEN <<>>
  ELSE encode(buf[i + 1], buf[i + 2], buf[i + 3]) \o encodeGroups(buf, i + 3)

\* decodeBuffer that drops an incomplete trailing group instead of throwing
decodeBufferTruncating(buf) ==
  Ok(decodeGroups(SubSeq(buf, 1, 4 * (Len(buf) \div 4)), 0))

decodeBuffer(buf) ==
  IF Len(buf) % 4 # 0 THEN Raised
  ELSE Ok(decodeGroups(buf, 0))

encodeBuffer(buf) ==
  IF Len(buf) % 3 # 0 THEN Raised
  ELSE Ok(encodeGroups(buf, 0))

(***************************************************************************)
(* Inputs of the Serato32 checks.                                          *)
(***************************************************************************)
MaxBufLen == 7

ByteSamples == {0, 1, 85, 128, 255}

SevenBit == {0, 7, 8, 85, 127}

BufBytes == {0, 127, 255}

RECURSIVE SeqsUpTo(_, _)
SeqsUpTo(S, n) ==
  IF n = 0 THEN {<<>>}
  ELSE LET shorter == SeqsUpTo(S, n - 1)
       IN  shorter \cup {Append(s, x) : s \in {t \in shorter : Len(t) = n - 1}, x \in S}

Idle == mid = [raised |-> FALSE, bytes |-> <<>>] /\ output = [raised |-> FALSE, bytes |-> <<>>]

\* three plaintext bytes, at most one of them outside the sample set
InitPlain ==
  \E a \in 0..255, b \in ByteSamples, c \in ByteSamples :
    \E t \in {<<a, b, c>>, <<b, a, c>>, <<b, c, a>>} :
      input = [kind |-> "plain", bytes |-> t]

\* four encoded bytes with bit 7 clear, at most one outside the sample set
InitPacked ==
  \E a \in 0..127, b \in SevenBit, c \in SevenBit, d \in SevenBit :
    \E q \in {<<a, b, c, d>>, <<b, a, c, d>>, <<b, c, a, d>>, <<b, c, d, a>>} :
      input = [kind |-> "packed", bytes |-> q]

InitBuffers ==
  \E k \in {"plainBuf", "packedBuf"}, b \in SeqsUpTo(BufBytes, MaxBufLen) :
    input = [kind |-> k, bytes |-> b]

InitSerato32 ==
  /\ pc = "start"
  /\ InitPlain \/ InitPacked \/ InitBuffers
  /\ Idle

Encode ==
  /\ pc = "start"
  /\ input.kind = "plain"
  /\ mid' = Ok(encode(input.bytes[1], input.bytes[2], input.bytes[3]))
  /\ pc' = "encoded"
  /\ UNCHANGED <<input, output>>

DecodeEncoded ==
  /\ pc = "encoded"
  /\ output' = Ok(decode(mid.bytes[1], mid.bytes[2], mid.bytes[3], mid.bytes[4]))
  /\ pc' = "done"
  /\ UNCHANGED <<input, mid>>

Decode ==
  /\ pc = "start"
  /\ input.kind = "packed"
  /\ mid' = Ok(decode(input.bytes[1], input.bytes[2], input.bytes[3], input.bytes[4]))
  /\ pc' = "decoded"
  /\ UNCHANGED <<input, output>>

EncodeDecoded ==
  /\ pc = "decoded"
  /\ output' = Ok(encode(mid.bytes[1], mid.bytes[2], mid.bytes[3]))
  /\ pc' = "done"
  /\ UNCHANGED <<input, mid>>

DecodeBuffer ==
  /\ pc = "start"
  /\ input.kind = "packedBuf"
  /\ output' = decodeBuffer(input.bytes)
  /\ pc' = "done"
  /\ UNCHANGED <<input, mid>>

EncodeBuffer ==
  /\ pc = "start"
  /\ input.kind = "plainBuf"
  /\ output' = encodeBuffer(input.bytes)
  /\ pc' = "done"
  /\ UNCHANGED <<input, mid>>

NextSerato32 ==
  \/ Encode
  \/ DecodeEncoded
  \/ Decode
  \/ EncodeDecoded
  \/ DecodeBuffer
  \/ EncodeBuffer

SpecSerato32 == InitSerato32 /\ [][NextSerato32]_vars

\* C1: decoding the Serato32 encoding of any three bytes gives the three
\* bytes back.
C1_RoundTrip ==
  (pc = "done" /\ input.kind = "plain") => output.bytes = input.bytes

C1_Witness ==
  /\ pc = "done"
  /\ input.kind = "plain"
  /\ input.bytes = <<255, 255, 255>>
  /\ mid.bytes = <<7, 127, 127, 127>>

\* C2 as stated: encoding the decoding of any four 7-bit bytes gives the
\* four bytes back.
C2_EncodeInvertsDecode ==
  (pc = "done" /\ input.kind = "packed") => output.bytes = input.bytes

\* C2 amended: encoding the decoding of four 7-bit bytes gives the four
\* bytes back when the first byte is at most 7 (decode keeps only its low
\* 3 bits); in general the first byte comes back reduced modulo 8 and the
\* other three unchanged.
C2_EncodeInvertsDecodeLow3 ==
  (pc = "done" /\ input.kind = "packed") =>
    /\ output.bytes = <<input.bytes[1] % 8, input.bytes[2], input.bytes[3], input.bytes[4]>>
    /\ (input.bytes[1] <= 7 => output.bytes = input.bytes)

C2_Witness ==
  /\ pc = "done"
  /\ input.kind = "packed"
  /\ input.bytes = <<7, 127, 127, 127>>
  /\ mid.bytes = <<255, 255, 255>>

\* C3: decodeBuffer throws exactly when the length is not a multiple of 4
\* and otherwise returns 3*len/4 bytes; encodeBuffer throws exactly when the
\* length is not a multiple of 3 and otherwise returns 4*len/3 bytes.
C3_BufferLengths ==
  /\ (pc = "done" /\ input.kind = "packedBuf") =>
       /\ output.raised <=> (Len(input.bytes) % 4 # 0)
       /\ ~output.raised => 4 * Len(output.bytes) = 3 * Len(input.bytes)
  /\ (pc = "done" /\ input.kind = "plainBuf") =>
       /\ output.raised <=> (Len(input.bytes) % 3 # 0)
       /\ ~output.raised => 3 * Len(output.bytes) = 4 * Len(input.bytes)

C3_Witness ==
  /\ pc = "done"
  /\ input.kind = "packedBuf"
  /\ Len(input.bytes) = 5
  /\ output.raised

(***************************************************************************)
(* encoding/base64.ts: base64 without padding, a line feed after every 72  *)
(* characters.  Characters are ASCII codes.                                *)
(***************************************************************************)
LINE_LENGTH == 72

PadChar == 61

LineFeed == 10

\* the base64 alphabet of Buffer.toString('base64')
B64Char(i) ==
  IF i < 26 THEN 65 + i
  ELSE IF i < 52 THEN 97 + (i - 26)
  ELSE IF i < 62 THEN 48 + (i - 52)
  ELSE IF i = 62 THEN 43
  ELSE 47

\* the value Buffer.from(..., 'base64') gives a character, -1 for a
\* character it skips ('-' and '_' are accepted for '+' and '/')
B64Index(c) ==
  IF c >= 65 /\ c <= 90 THEN c - 65
  ELSE IF c >= 97 /\ c <= 122 THEN c - 97 + 26
  ELSE IF c >= 48 /\ c <= 57 THEN c - 48 + 52
  ELSE IF c = 43 \/ c = 45 THEN 62
  ELSE IF c = 47 \/ c = 95 THEN 63
  ELSE -1

\* Buffer.toString('base64'): standard base64 with '=' padding; character
\* k belongs to the group of three bytes number (k - 1) \div 4
toBase64(buf) ==
  LET n == Len(buf)
      byteAt(i) == IF i <= n THEN buf[i] ELSE 0
  IN  [k \in 1..4 * ((n + 2) \div 3) |->
        LET g == (k - 1) \div 4
            j == (k - 1) % 4
            b1 == byteAt(3 * g + 1)
            b2 == byteAt(3 * g + 2)
            b3 == byteAt(3 * g + 3)
        IN  IF j = 0 THEN B64Char(b1 \div 4)
            ELSE IF j = 1 THEN B64Char((b1 % 4) * 16 + b2 \div 16)
            ELSE IF j = 2 THEN
              IF 3 * g + 2 > n THEN PadChar ELSE B64Char((b2 % 16) * 4 + b3 \div 64)
            ELSE
              IF 3 * g + 3 > n THEN PadChar ELSE B64Char(b3 % 64)]

\* the characters Buffer.from(..., 'base64') decodes: it stops at the first
\* '=' and skips every character outside the alphabet
b64Symbols(str) ==
  LET pads == {i \in 1..Len(str) : str[i] = PadChar}
      stop == IF pads = {} THEN Len(str)
              ELSE (CHOOSE i \in pads : \A j \in pads : i <= j) - 1
      kept == SelectSeq(SubSeq(str, 1, stop), LAMBDA c : B64Index(c) >= 0)
  IN  [i \in 1..Len(kept) |-> B64Index(kept[i])]

\* every 4 symbols give 3 bytes; 2 or 3 left over give 1 or 2 bytes
b64Bytes(sym) ==
  LET n == Len(sym)
      rest == n % 4
      outLen == 3 * (n \div 4) + (IF rest = 2 THEN 1 ELSE IF rest = 3 THEN 2 ELSE 0)
  IN  [k \in 1..outLen |->
        LET g == (k - 1) \div 3
            j == (k - 1) % 3
        IN  IF j = 0 THEN sym[4 * g + 1] * 4 + sym[4 * g + 2] \div 16
            ELSE IF j = 1 THEN (sym[4 * g + 2] % 16) * 16 + sym[4 * g + 3] \div 4
            ELSE (sym[4 * g + 3] % 4) * 64 + sym[4 * g + 4]]

\* Buffer.from(str, 'base64')
fromBase64(str) == b64Bytes(b64Symbols(str))

\* the last position of str holding a character outside S, 0 if none
lastOutside(str, S) ==
  LET keep == {i \in 1..Len(str) : str[i] \notin S}
  IN  IF keep = {} THEN 0 ELSE CHOOSE i \in keep : \A j \in keep : j <= i

\* a replace that strips trailing 'A' characters (zero bits) with the padding
stripPaddingAndA(str) == SubSeq(str, 1, lastOutside(str, {PadChar, 65}))

\* str.replace(/=+$/, '')
stripPadding(str) == SubSeq(str, 1, lastOutside(str, {PadChar}))

\* the loop pushing base64.slice(i, i + LINE_LENGTH), and lines.join('\n')
RECURSIVE joinLines(_, _)
joinLines(base64, i) ==
  IF i >= Len(base64) THEN <<>>
  ELSE (IF i > 0 THEN <<LineFeed>> ELSE <<>>)
         \o SubSeq(base64, i + 1, IF i + LINE_LENGTH < Len(base64) THEN i + LINE_LENGTH ELSE Len(base64))
         \o joinLines(base64, i + LINE_LENGTH)

\* encodeWithLinebreaks that keeps the '=' padding and ends every line,
\* the last one included, with a line feed
RECURSIVE terminatedLines(_, _)
terminatedLines(base64, i) ==
  IF i >= Len(base64) THEN <<>>
  ELSE SubSeq(base64, i + 1, IF i + LINE_LENGTH < Len(base64) THEN i + LINE_LENGTH ELSE Len(base64))
         \o <<LineFeed>> \o terminatedLines(base64, i + LINE_LENGTH)

encodeWithLinebreaksPadded(buf) == terminatedLines(toBase64(buf), 0)

encodeWithLinebreaks(buf) == joinLines(stripPadding(toBase64(buf)), 0)

\* /\s/ on the characters that occur: tab, LF, VT, FF, CR, space
IsWhitespace(c) == c \in {9, 10, 11, 12, 13, 32}

\* input.replace(/\s/g, '')
removeWhitespace(str) == SelectSeq(str, LAMBDA c : ~IsWhitespace(c))

repeatPad(n) == [i \in 1..n |-> PadChar]

decodeWithLinebreaks(str) ==
  LET base64 == removeWhitespace(str)
      paddingNeeded == (4 - (Len(base64) % 4)) % 4
  IN  fromBase64(base64 \o repeatPad(paddingNeeded))

(***************************************************************************)
(* Inputs of the base64 checks: every length up to MaxB64Len with bytes    *)
(* seed, seed+step, seed+2*step, ... (mod 256), and every buffer of up to  *)
(* MaxShortLen bytes over B64Bytes.                                        *)
(***************************************************************************)
MaxB64Len == 110

MaxShortLen == 3

B64Seeds == {0, 65, 251, 255}

B64Steps == {0, 1, 37}

B64Bytes == {0, 62, 63, 251, 255}

patternBuffer(n, seed, step) == [i \in 1..n |-> (seed + (i - 1) * step) % 256]

InitBase64 ==
  /\ pc = "start"
  /\ \/ \E n \in 0..MaxB64Len, seed \in B64Seeds, step \in B64Steps :
          input = patternBuffer(n, seed, step)
     \/ input \in SeqsUpTo(B64Bytes, MaxShortLen)
  /\ mid = <<>>
  /\ output = <<>>

EncodeWithLinebreaks ==
  /\ pc = "start"
  /\ mid' = encodeWithLinebreaks(input)
  /\ pc' = "encoded"
  /\ UNCHANGED <<input, output>>

DecodeWithLinebreaks ==
  /\ pc = "encoded"
  /\ output' = decodeWithLinebreaks(mid)
  /\ pc' = "done"
  /\ UNCHANGED <<input, mid>>

NextBase64 ==
  \/ EncodeWithLinebreaks
  \/ DecodeWithLinebreaks

SpecBase64 == InitBase64 /\ [][NextBase64]_vars

\* C4: decodeWithLinebreaks(encodeWithLinebreaks(buf)) = buf for every
\* buffer, whatever its padding remainder and number of lines.
C4_Base64RoundTrip == pc = "done" => output = input

\* a 109-byte buffer: padding remainder 1, three lines
C4_Witness ==
  /\ pc = "done"
  /\ Len(input) = 109
  /\ Len(SelectSeq(mid, LAMBDA c : c = LineFeed)) = 2
  /\ input[2] # input[1]

\* C5: the output of encodeWithLinebreaks has no '=', has a line feed at
\* exactly the positions following 72 base64 characters (so every line but
\* the last is 72 characters long), and does not end with a line feed.
C5_LineShape ==
  pc # "start" =>
    /\ \A p \in 1..Len(mid) :
         /\ mid[p] # PadChar
         /\ (mid[p] = LineFeed) <=> (p % (LINE_LENGTH + 1) = 0)
    /\ Len(mid) > 0 => mid[Len(mid)] # LineFeed

\* 54 bytes give exactly 72 characters: one full line and no line feed
C5_Witness ==
  /\ pc = "encoded"
  /\ Len(input) = 54
  /\ Len(mid) = LINE_LENGTH

(***************************************************************************)
(* parsers/geob/markers2.ts                                                *)
(*                                                                         *)
(* A name is the sequence of its bytes (the inputs use ASCII only, where   *)
(* toString('utf8') is the identity); an absent optional field is <<>>,    *)
(* a present trackColor or bpmLock a one-element sequence.  A double is    *)
(* the sequence of its 8 bytes.                                            *)
(***************************************************************************)
CUE == <<67, 85, 69>>

LOOP == <<76, 79, 79, 80>>

FLIP == <<70, 76, 73, 80>>

COLOR == <<67, 79, 76, 79, 82>>

BPMLOCK == <<66, 80, 77, 76, 79, 67, 75>>

\* Buffer.readUInt8 / readUInt32BE / readDoubleBE throw a RangeError unless
\* the bytes read lie inside the buffer
InRange(data, offset, n) == offset >= 0 /\ offset + n <= Len(data)

readUInt8(data, offset) == data[offset + 1]

readUInt32BE(data, offset) ==
  ((data[offset + 1] * 256 + data[offset + 2]) * 256 + data[offset + 3]) * 256 + data[offset + 4]

readDoubleBE(data, offset) == SubSeq(data, offset + 1, offset + 8)

\* buffer.subarray(start, end), both clamped to the buffer
subarray(data, start, end) ==
  SubSeq(data, (IF start < Len(data) THEN start ELSE Len(data)) + 1,
               IF end < Len(data) THEN end ELSE Len(data))

RECURSIVE scanToNull(_, _)
scanToNull(buffer, end) ==
  IF end < Len(buffer) /\ buffer[end + 1] # 0 THEN scanToNull(buffer, end + 1) ELSE end

readNullTerminatedString(buffer, offset) ==
  LET end == scanToNull(buffer, offset)
  IN  [value |-> subarray(buffer, offset, end), bytesRead |-> end - offset + 1]

M2Raised ==
  [raised |-> TRUE, cuePoints |-> <<>>, loops |-> <<>>, flips |-> <<>>,
   trackColor |-> <<>>, bpmLock |-> <<>>]

M2Empty ==
  [raised |-> FALSE, cuePoints |-> <<>>, loops |-> <<>>, flips |-> <<>>,
   trackColor |-> <<>>, bpmLock |-> <<>>]

\* the result of a sub-parser: raised, or the value it returns
Threw == [raised |-> TRUE, value |-> <<>>]

Returned(v) == [raised |-> FALSE, value |-> v]

parseCue(data) ==
  IF ~(InRange(data, 1, 1) /\ InRange(data, 2, 4) /\ InRange(data, 7, 1)
         /\ InRange(data, 8, 1) /\ InRange(data, 9, 1))
  THEN Threw
  ELSE Returned([index |-> readUInt8(data, 1),
                 position |-> readUInt32BE(data, 2),
                 color |-> [r |-> readUInt8(data, 7), g |-> readUInt8(data, 8),
                            b |-> readUInt8(data, 9)],
                 name |-> IF Len(data) > 12
                          THEN readNullTerminatedString(data, 12).value
                          ELSE <<>>])

parseLoop(data) ==
  IF ~(InRange(data, 1, 1) /\ InRange(data, 2, 4) /\ InRange(data, 6, 4)
         /\ InRange(data, 14, 1) /\ InRange(data, 15, 1) /\ InRange(data, 16, 1)
         /\ InRange(data, 17, 1) /\ InRange(data, 21, 1))
  THEN Threw
  ELSE Returned([index |-> readUInt8(data, 1),
                 startPosition |-> readUInt32BE(data, 2),
                 endPosition |-> readUInt32BE(data, 6),
                 color |-> [r |-> readUInt8(data, 15), g |-> readUInt8(data, 16),
                            b |-> readUInt8(data, 17), a |-> readUInt8(data, 14)],
                 locked |-> readUInt8(data, 21) # 0,
                 name |-> IF Len(data) > 22
                          THEN readNullTerminatedString(data, 22).value
                          ELSE <<>>])

\* a loop that leaves the offset at the body of the sub-entry
skipActionNot(at, length) == at

\* offset += length, from the offset of the body of the sub-entry
skipAction(at, length) == at + length

\* the action loop of parseFlip, from action i at offset with the actions
\* collected so far
RECURSIVE flipActions(_, _, _, _, _)
flipActions(data, offset, i, actionCount, actions) ==
  IF i >= actionCount THEN Returned(actions)
  ELSE IF ~(InRange(data, offset, 1) /\ InRange(data, offset + 1, 4)) THEN Threw
  ELSE
    LET type == readUInt8(data, offset)
        length == readUInt32BE(data, offset + 1)
        at == offset + 5
    IN  IF type = 0 THEN
          IF ~(InRange(data, at, 8) /\ InRange(data, at + 8, 8)) THEN Threw
          ELSE flipActions(data, skipAction(at, length), i + 1, actionCount,
                 Append(actions, [type |-> "jump",
                                  sourcePosition |-> readDoubleBE(data, at),
                                  targetPosition |-> readDoubleBE(data, at + 8),
                                  speedFactor |-> <<>>]))
        ELSE IF type = 1 THEN
          IF ~(InRange(data, at, 8) /\ InRange(data, at + 8, 8) /\ InRange(data, at + 16, 8))
          THEN Threw
          ELSE flipActions(data, skipAction(at, length), i + 1, actionCount,
                 Append(actions, [type |-> "censor",
                                  sourcePosition |-> readDoubleBE(data, at),
                                  targetPosition |-> readDoubleBE(data, at + 8),
                                  speedFactor |-> readDoubleBE(data, at + 16)]))
        ELSE flipActions(data, skipAction(at, length), i + 1, actionCount, actions)

parseFlip(data) ==
  IF ~(InRange(data, 1, 1) /\ InRange(data, 2, 1)) THEN Threw
  ELSE
    LET name == readNullTerminatedString(data, 3)
        offset == 3 + name.bytesRead
    IN  IF ~(InRange(data, offset, 1) /\ InRange(data, offset + 1, 4)) THEN Threw
        ELSE
          LET acts == flipActions(data, offset + 5, 0, readUInt32BE(data, offset + 1), <<>>)
          IN  IF acts.raised THEN Threw
              ELSE Returned([index |-> readUInt8(data, 1),
                             enabled |-> readUInt8(data, 2) # 0,
                             name |-> name.value,
                             loop |-> readUInt8(data, offset) # 0,
                             actions |-> acts.value])

parseColor(data) ==
  IF ~(InRange(data, 1, 1) /\ InRange(data, 2, 1) /\ InRange(data, 3, 1)) THEN Threw
  ELSE Returned([r |-> readUInt8(data, 1), g |-> readUInt8(data, 2), b |-> readUInt8(data, 3)])

parseBpmLock(data) ==
  IF ~InRange(data, 0, 1) THEN Threw
  ELSE Returned(readUInt8(data, 0) # 0)

\* a case label that also matches every type the label is a prefix of
caseMatchesPrefix(entryType, label) ==
  Len(entryType) >= Len(label) /\ SubSeq(entryType, 1, Len(label)) = label

\* `case label:` of the switch on entryType (strict equality)
caseMatches(entryType, label) == entryType = label

\* the switch on entryType of parseMarkers2
applyEntry(result, entryType, entryData) ==
  IF caseMatches(entryType, CUE) THEN
    LET c == parseCue(entryData)
    IN  IF c.raised THEN M2Raised
        ELSE [result EXCEPT !.cuePoints = Append(@, c.value)]
  ELSE IF caseMatches(entryType, LOOP) THEN
    LET l == parseLoop(entryData)
    IN  IF l.raised THEN M2Raised
        ELSE [result EXCEPT !.loops = Append(@, l.value)]
  ELSE IF caseMatches(entryType, FLIP) THEN
    LET f == parseFlip(entryData)
    IN  IF f.raised THEN M2Raised
        ELSE [result EXCEPT !.flips = Append(@, f.value)]
  ELSE IF caseMatches(entryType, COLOR) THEN
    LET c == parseColor(entryData)
    IN  IF c.raised THEN M2Raised
        ELSE [result EXCEPT !.trackColor = <<c.value>>]
  ELSE IF caseMatches(entryType, BPMLOCK) THEN
    LET b == parseBpmLock(entryData)
    IN  IF b.raised THEN M2Raised
        ELSE [result EXCEPT !.bpmLock = <<b.value>>]
  ELSE result

\* the while loop of parseMarkers2
RECURSIVE walkEntries(_, _, _)
walkEntries(data, offset, result) ==
  IF offset >= Len(data) THEN result
  ELSE IF data[offset + 1] = 0 THEN result
  ELSE
    LET type == readNullTerminatedString(data, offset)
        lenAt == offset + type.bytesRead
    IN  IF lenAt + 4 > Len(data) THEN result
        ELSE
          LET entryLength == readUInt32BE(data, lenAt)
              dataAt == lenAt + 4
          IN  IF dataAt + entryLength > Len(data) THEN result
              ELSE
                LET next == applyEntry(result, type.value,
                                       subarray(data, dataAt, dataAt + entryLength))
                IN  IF next.raised THEN next
                    ELSE walkEntries(data, dataAt + entryLength, next)

\* Array.prototype.sort((a, b) => a.index - b.index): stable
RECURSIVE insertByIndex(_, _)
insertByIndex(sorted, x) ==
  IF Len(sorted) = 0 THEN <<x>>
  ELSE IF sorted[Len(sorted)].index <= x.index THEN Append(sorted, x)
  ELSE Append(insertByIndex(SubSeq(sorted, 1, Len(sorted) - 1), x), sorted[Len(sorted)])

RECURSIVE sortPrefix(_, _)
sortPrefix(list, n) ==
  IF n = 0 THEN <<>> ELSE insertByIndex(sortPrefix(list, n - 1), list[n])

\* the lists left in file order
sortByIndexOmitted(list) == list

sortByIndex(list) == sortPrefix(list, Len(list))

parseMarkers2(data) ==
  LET offset == IF Len(data) >= 2 /\ data[1] = 1 /\ data[2] = 1 THEN 2 ELSE 0
      walked == walkEntries(data, offset, M2Empty)
  IN  IF walked.raised THEN M2Raised
      ELSE [walked EXCEPT !.cuePoints = sortByIndex(@),
                          !.loops = sortByIndex(@),
                          !.flips = sortByIndex(@)]

(***************************************************************************)
(* Inputs of the Markers2 checks: an optional header, up to MaxEntries     *)
(* entries of EntryCatalogue, each framed with its true payload length,    *)
(* and one of Markers2Tails.  Every entry is built from the field values   *)
(* its decoding should give (`rec`); `ok` tells whether the payload is as  *)
(* long as the fixed layout of its type.                                   *)
(***************************************************************************)
MaxEntries == 3

u32be(n) == <<(n \div 16777216) % 256, (n \div 65536) % 256, (n \div 256) % 256, n % 256>>

f64(tag) == <<64, tag, 0, 0, 0, 0, 0, tag>>

cuePayload(index, position, r, g, b, name) ==
  <<0, index>> \o u32be(position) \o <<0, r, g, b, 0, 0>> \o name \o <<0>>

cueEntry(index, position, r, g, b, name) ==
  [type |-> CUE, kind |-> "cue", ok |-> TRUE,
   payload |-> cuePayload(index, position, r, g, b, name),
   rec |-> [index |-> index, position |-> position,
            color |-> [r |-> r, g |-> g, b |-> b], name |-> name]]

loopPayload(index, start, end, a, r, g, b, locked, name) ==
  <<0, index>> \o u32be(start) \o u32be(end) \o <<0, 0, 0, 0>> \o <<a, r, g, b>>
    \o <<0, 0, 0>> \o <<IF locked THEN 1 ELSE 0>> \o name \o <<0>>

loopEntry(index, start, end, a, r, g, b, locked, name) ==
  [type |-> LOOP, kind |-> "loop", ok |-> TRUE,
   payload |-> loopPayload(index, start, end, a, r, g, b, locked, name),
   rec |-> [index |-> index, startPosition |-> start, endPosition |-> end,
            color |-> [r |-> r, g |-> g, b |-> b, a |-> a],
            locked |-> locked, name |-> name]]

jumpAction(src, dst) ==
  [bytes |-> <<0>> \o u32be(16) \o f64(src) \o f64(dst),
   rec |-> <<[type |-> "jump", sourcePosition |-> f64(src), targetPosition |-> f64(dst),
              speedFactor |-> <<>>]>>]

censorAction(src, dst, speed) ==
  [bytes |-> <<1>> \o u32be(24) \o f64(src) \o f64(dst) \o f64(speed),
   rec |-> <<[type |-> "censor", sourcePosition |-> f64(src), targetPosition |-> f64(dst),
              speedFactor |-> f64(speed)]>>]

otherAction(type, body) ==
  [bytes |-> <<type>> \o u32be(Len(body)) \o body, rec |-> <<>>]

RECURSIVE concatField(_, _, _)
concatField(list, field, i) ==
  IF i > Len(list) THEN <<>> ELSE list[i][field] \o concatField(list, field, i + 1)

flipEntry(index, enabled, name, loop, actions) ==
  [type |-> FLIP, kind |-> "flip", ok |-> TRUE,
   payload |-> <<0, index, IF enabled THEN 1 ELSE 0>> \o name \o <<0>>
                 \o <<IF loop THEN 1 ELSE 0>> \o u32be(Len(actions))
                 \o concatField(actions, "bytes", 1),
   rec |-> [index |-> index, enabled |-> enabled, name |-> name, loop |-> loop,
            actions |-> concatField(actions, "rec", 1)]]

colorEntry(r, g, b) ==
  [type |-> COLOR, kind |-> "color", ok |-> TRUE, payload |-> <<0, r, g, b>>,
   rec |-> [r |-> r, g |-> g, b |-> b]]

bpmLockEntry(locked) ==
  [type |-> BPMLOCK, kind |-> "bpmlock", ok |-> TRUE,
   payload |-> <<IF locked THEN 1 ELSE 0>>, rec |-> locked]

\* a recognised entry whose payload stops short of its fixed layout
shortEntry(type, kind, payload) ==
  [type |-> type, kind |-> kind, ok |-> FALSE, payload |-> payload, rec |-> <<>>]

unknownEntry(type, payload) ==
  [type |-> type, kind |-> "unknown", ok |-> TRUE, payload |-> payload, rec |-> <<>>]

serializeEntry(e) == e.type \o <<0>> \o u32be(Len(e.payload)) \o e.payload

RECURSIVE serializeEntries(_, _)
serializeEntries(entries, i) ==
  IF i > Len(entries) THEN <<>>
  ELSE serializeEntry(entries[i]) \o serializeEntries(entries, i + 1)

Cue0 == cueEntry(0, 1000, 255, 0, 0, <<>>)

Cue2 == cueEntry(2, 0, 0, 255, 0, <<68, 114, 111, 112>>)

Cue2Late == cueEntry(2, 70000, 0, 0, 255, <<>>)

Loop0 == loopEntry(0, 1000, 2000, 255, 0, 0, 255, TRUE, <<>>)

Loop1 == loopEntry(1, 0, 500, 255, 39, 170, 225, FALSE, <<76>>)

Flip0 == flipEntry(0, FALSE, <<>>, FALSE, <<>>)

Flip1 ==
  flipEntry(1, TRUE, <<70>>, TRUE,
            <<jumpAction(1, 2), otherAction(2, <<9, 9, 9>>), censorAction(3, 4, 5)>>)

EntryCatalogue ==
  { Cue0, Cue2, Cue2Late, Loop0, Loop1, Flip0, Flip1,
    colorEntry(153, 255, 153), bpmLockEntry(TRUE),
    unknownEntry(<<88, 89, 90>>, <<1, 2, 3, 4>>),
    shortEntry(CUE, "cue", <<0, 1, 0, 0, 0>>),
    shortEntry(LOOP, "loop", SubSeq(Loop1.payload, 1, 21)),
    shortEntry(FLIP, "flip", SubSeq(Flip1.payload, 1, Len(Flip1.payload) - 1)),
    shortEntry(BPMLOCK, "bpmlock", <<>>) }

\* what may follow the last entry: nothing, the terminator, the terminator
\* and padding, a type name cut before its NUL, a type with an incomplete
\* length, and an entry declaring more payload than the buffer holds
Markers2Tails ==
  { <<>>, <<0>>, <<0, 67, 85, 69, 0>>, <<67, 85>>,
    CUE \o <<0, 0, 0>>,
    CUE \o <<0>> \o u32be(13) \o SubSeq(Cue0.payload, 1, 11) }

markers2Buffer(header, entries, tail) ==
  (IF header THEN <<1, 1>> ELSE <<>>) \o serializeEntries(entries, 1) \o tail

EntryLists == SeqsUpTo(EntryCatalogue, MaxEntries)

InitMarkers2 ==
  /\ pc = "start"
  /\ \E header \in BOOLEAN, entries \in EntryLists, tail \in Markers2Tails :
       input = [header |-> header, entries |-> entries, tail |-> tail,
                data |-> markers2Buffer(header, entries, tail)]
  /\ mid = M2Empty
  /\ output = M2Empty

ParseMarkers2 ==
  /\ pc = "start"
  /\ output' = parseMarkers2(input.data)
  /\ pc' = "done"
  /\ UNCHANGED <<input, mid>>

NextMarkers2 == ParseMarkers2

SpecMarkers2 == InitMarkers2 /\ [][NextMarkers2]_vars

\* the records of the entries of one kind, in file order
RECURSIVE recordsOf(_, _)
recordsOf(entries, kind) ==
  IF Len(entries) = 0 THEN <<>>
  ELSE (IF entries[1].kind = kind THEN <<entries[1].rec>> ELSE <<>>)
         \o recordsOf(Tail(entries), kind)

\* the entries before the first one whose payload is too short
RECURSIVE wellFormedPrefix(_)
wellFormedPrefix(entries) ==
  IF Len(entries) = 0 \/ ~entries[1].ok THEN <<>>
  ELSE <<entries[1]>> \o wellFormedPrefix(Tail(entries))

Occurrences(list, x) == Cardinality({i \in 1..Len(list) : list[i] = x})

SameEntries(a, b) ==
  /\ Len(a) = Len(b)
  /\ \A i \in 1..Len(a) : Occurrences(a, a[i]) = Occurrences(b, a[i])

AscendingByIndex(list) ==
  \A i \in 1..Len(list) - 1 : list[i].index <= list[i + 1].index

\* C6: when parseMarkers2 returns, cuePoints, loops and flips are each in
\* ascending order of index and hold exactly the entries of their type that
\* the buffer contains, whatever their order in the buffer.
C6_SortedByIndex ==
  (pc = "done" /\ ~output.raised) =>
    /\ AscendingByIndex(output.cuePoints)
    /\ AscendingByIndex(output.loops)
    /\ AscendingByIndex(output.flips)
    /\ SameEntries(output.cuePoints, recordsOf(input.entries, "cue"))
    /\ SameEntries(output.loops, recordsOf(input.entries, "loop"))
    /\ SameEntries(output.flips, recordsOf(input.entries, "flip"))

\* a CUE of index 2 precedes a CUE of index 0 in the file
C6_Witness ==
  /\ pc = "done"
  /\ ~output.raised
  /\ input.header
  /\ Len(input.entries) = 3
  /\ input.entries[1] = Cue2
  /\ input.entries[2] = Loop1
  /\ input.entries[3] = Cue0
  /\ output.cuePoints = <<Cue0.rec, Cue2.rec>>

\* C7: parseMarkers2 never throws, and its result holds exactly the cue
\* points, loops and flips of the well-formed entries before the first
\* malformed one.
C7_MalformedTailDropped ==
  pc = "done" =>
    /\ ~output.raised
    /\ SameEntries(output.cuePoints, recordsOf(wellFormedPrefix(input.entries), "cue"))
    /\ SameEntries(output.loops, recordsOf(wellFormedPrefix(input.entries), "loop"))
    /\ SameEntries(output.flips, recordsOf(wellFormedPrefix(input.entries), "flip"))

(***************************************************************************)
(* Inserting an entry of an unrecognised type between the entries of a     *)
(* buffer: the buffer is parsed without and with the inserted entry.       *)
(***************************************************************************)
MaxBaseEntries == 2

BaseCatalogue ==
  { Cue0, Cue2, Loop1, Flip1, colorEntry(153, 255, 153),
    unknownEntry(<<88, 89, 90>>, <<1, 2, 3, 4>>),
    shortEntry(CUE, "cue", <<0, 1, 0, 0, 0>>) }

\* unrecognised types: "XYZ", "CUES" carrying a CUE payload, "Q" carrying a
\* whole serialized CUE entry and a terminator, "cue" with no payload
UnknownEntries ==
  { unknownEntry(<<88, 89, 90>>, <<1, 2, 3, 4>>),
    unknownEntry(CUE \o <<83>>, Cue0.payload),
    unknownEntry(<<81>>, serializeEntry(Cue2Late) \o <<0>>),
    unknownEntry(<<99, 117, 101>>, <<>>) }

insertAt(entries, at, e) ==
  SubSeq(entries, 1, at) \o <<e>> \o SubSeq(entries, at + 1, Len(entries))

InitMarkers2Skip ==
  /\ pc = "start"
  /\ \E header \in BOOLEAN, entries \in SeqsUpTo(BaseCatalogue, MaxBaseEntries),
        tail \in Markers2Tails, e \in UnknownEntries :
       \E at \in 0..Len(entries) :
         input = [header |-> header, entries |-> entries, tail |-> tail,
                  inserted |-> e, at |-> at,
                  data |-> markers2Buffer(header, entries, tail),
                  dataInserted |-> markers2Buffer(header, insertAt(entries, at, e), tail)]
  /\ mid = M2Empty
  /\ output = M2Empty

ParseOriginal ==
  /\ pc = "start"
  /\ mid' = parseMarkers2(input.data)
  /\ pc' = "parsed"
  /\ UNCHANGED <<input, output>>

ParseInserted ==
  /\ pc = "parsed"
  /\ output' = parseMarkers2(input.dataInserted)
  /\ pc' = "done"
  /\ UNCHANGED <<input, mid>>

NextMarkers2Skip ==
  \/ ParseOriginal
  \/ ParseInserted

SpecMarkers2Skip == InitMarkers2Skip /\ [][NextMarkers2Skip]_vars

\* C8: a well-formed entry of an unrecognised (non-empty) type inserted
\* between the entries of a buffer changes nothing in what parseMarkers2
\* gives for the buffer, and parseMarkers2 throws with the entry inserted
\* only if it throws without it.
C8_UnknownEntrySkipped ==
  pc = "done" =>
    /\ output = mid
    /\ mid.raised \/ ~output.raised

\* "CUES" with a CUE payload inserted between a cue point and a flip
C8_Witness ==
  /\ pc = "done"
  /\ input.inserted.type = CUE \o <<83>>
  /\ input.at = 1
  /\ input.entries = <<Cue2, Flip1>>
  /\ ~output.raised
  /\ output.cuePoints = <<Cue2.rec>>
  /\ output.flips = <<Flip1.rec>>

\* ---------------------------------------------------------------------
\* FLIP payloads: a name, the loop flag, the count of the sub-entries and
\* up to MaxActions sub-entries of ActionCatalogue, each with its declared
\* length, followed by one of FlipTails

MaxActions == 3

\* a jump, a jump declaring 4 bytes more than its two doubles, a censor,
\* and sub-entries of other types: without a body, with 3 bytes, with the
\* body of a jump, and with a body that reads as a jump sub-entry
ActionCatalogue ==
  { jumpAction(1, 2),
    [bytes |-> <<0>> \o u32be(20) \o f64(6) \o f64(7) \o <<9, 9, 9, 9>>,
     rec |-> jumpAction(6, 7).rec],
    censorAction(3, 4, 5),
    otherAction(2, <<>>),
    otherAction(2, <<9, 9, 9>>),
    otherAction(255, f64(1) \o f64(2)),
    otherAction(7, jumpAction(8, 9).bytes) }

FlipTails == { <<>>, <<0>>, jumpAction(8, 9).bytes }

InitFlip ==
  /\ pc = "start"
  /\ \E actions \in SeqsUpTo(ActionCatalogue, MaxActions), name \in {<<>>, <<70, 49>>},
        tail \in FlipTails :
       input = [actions |-> actions, name |-> name, tail |-> tail,
                data |-> flipEntry(1, TRUE, name, FALSE, actions).payload \o tail]
  /\ mid = Returned(<<>>)
  /\ output = Returned(<<>>)

ParseFlip ==
  /\ pc = "start"
  /\ output' = parseFlip(input.data)
  /\ pc' = "done"
  /\ UNCHANGED <<input, mid>>

NextFlip == ParseFlip

SpecFlip == InitFlip /\ [][NextFlip]_vars

\* C25: for a FLIP payload whose declared count of sub-entries all lie
\* within it, parseFlip returns as actions exactly the sub-entries of type
\* 0 (jump) and 1 (censor), in file order and with their own positions;
\* the sub-entries of other types give no action and leave the decoding
\* of those after them as it is.
C25_FlipActionsDecoded ==
  pc = "done" =>
    /\ ~output.raised
    /\ output.value.actions = concatField(input.actions, "rec", 1)

\* a jump, a sub-entry of type 7 whose body reads as a jump, and a censor
C25_Witness ==
  /\ pc = "done"
  /\ input.actions = <<jumpAction(1, 2), otherAction(7, jumpAction(8, 9).bytes),
                       censorAction(3, 4, 5)>>
  /\ ~output.raised
  /\ Len(output.value.actions) = 2
  /\ output.value.actions[2].type = "censor"

\* ---------------------------------------------------------------------
\* parseMarkers2FromBase64

\* a repair that completes a lone last character with 'A==' instead of
\* dropping it
repairByAppending(cleaned) ==
  LET remainder == Len(cleaned) % 4
  IN  IF remainder = 1 THEN cleaned \o <<65, PadChar, PadChar>>
      ELSE IF remainder = 2 THEN cleaned \o <<PadChar, PadChar>>
      ELSE IF remainder = 3 THEN cleaned \o <<PadChar>>
      ELSE cleaned

\* the if / else if on `remainder` of parseMarkers2FromBase64
repairLength(cleaned) ==
  LET remainder == Len(cleaned) % 4
  IN  IF remainder = 1 THEN SubSeq(cleaned, 1, Len(cleaned) - 1)
      ELSE IF remainder = 2 THEN cleaned \o <<PadChar, PadChar>>
      ELSE IF remainder = 3 THEN cleaned \o <<PadChar>>
      ELSE cleaned

\* parseMarkers2FromBase64; `handed` keeps the string given to Buffer.from
\* beside the result
parseMarkers2FromBase64(base64Data) ==
  LET cleaned == repairLength(removeWhitespace(base64Data))
  IN  [handed |-> cleaned, result |-> parseMarkers2(fromBase64(cleaned))]

\* Inputs: the base64 text of a Markers2 buffer without its padding, as
\* Serato stores it, with or without one more character at its end, and
\* the same text with whitespace inserted at any one place
MaxTextEntries == 1

TextCatalogue ==
  { Cue0, Loop1, colorEntry(153, 255, 153), shortEntry(CUE, "cue", <<0, 1, 0, 0, 0>>) }

Whitespace == { <<32>>, <<13, 10>> }

InitMarkers2Base64 ==
  /\ pc = "start"
  /\ \E header \in BOOLEAN, entries \in SeqsUpTo(TextCatalogue, MaxTextEntries),
        tail \in {<<>>, <<0>>, <<0, 0>>}, extra \in {<<>>, <<122>>},
        ws \in Whitespace :
       LET data == markers2Buffer(header, entries, tail)
           text == stripPadding(toBase64(data)) \o extra
       IN  \E at \in 0..Len(text) :
             input = [data |-> data, extra |-> extra, text |-> text, ws |-> ws, at |-> at,
                      spaced |-> SubSeq(text, 1, at) \o ws \o SubSeq(text, at + 1, Len(text))]
  /\ mid = [handed |-> <<>>, result |-> M2Empty]
  /\ output = [handed |-> <<>>, result |-> M2Empty]

ParseText ==
  /\ pc = "start"
  /\ mid' = parseMarkers2FromBase64(input.text)
  /\ pc' = "parsed"
  /\ UNCHANGED <<input, output>>

ParseSpacedText ==
  /\ pc = "parsed"
  /\ output' = parseMarkers2FromBase64(input.spaced)
  /\ pc' = "done"
  /\ UNCHANGED <<input, mid>>

NextMarkers2Base64 ==
  \/ ParseText
  \/ ParseSpacedText

SpecMarkers2Base64 == InitMarkers2Base64 /\ [][NextMarkers2Base64]_vars

CHUNK_TAGS ==
  [OSES |-> <<111, 115, 101, 115>>,
   OENT |-> <<111, 101, 110, 116>>,
   OTRK |-> <<111, 116, 114, 107>>,
   ADAT |-> <<97, 100, 97, 116>>,
   INDEX |-> <<0, 0, 0, 1>>,
   BPM |-> <<0, 0, 0, 15>>,
   START_TIME |-> <<0, 0, 0, 28>>,
   DECK |-> <<0, 0, 0, 31>>,
   PLAYED |-> <<0, 0, 0, 50>>,
   PLAY_TIME |-> <<0, 0, 0, 45>>,
   TITLE |-> <<0, 0, 0, 6>>,
   ARTIST |-> <<0, 0, 0, 7>>,
   FILE_PATH |-> <<0, 0, 0, 2>>,
   SESSION_DATE |-> <<0, 0, 0, 41>>]

getStringFromUInt32(n) ==
  <<(n \div 16777216) % 256, (n \div 65536) % 256, (n \div 256) % 256, n % 256>>

\* buffer.toString('latin1', start, end).replace(/\0/g, '')
latin1WithoutNul(buffer, start, end) ==
  SelectSeq(subarray(buffer, start, end), LAMBDA c : c # 0)

ChunkThrew == [raised |-> TRUE, chunk |-> <<>>, newIndex |-> 0]

ChunksThrew == [raised |-> TRUE, chunks |-> <<>>]

RECURSIVE parseChunk(_, _)
RECURSIVE parseChunkArrayFrom(_, _, _, _)

\* the while loop of parseChunkArray, from cursor with the chunks so far
parseChunkArrayFrom(buffer, cursor, end, chunks) ==
  IF cursor >= end THEN [raised |-> FALSE, chunks |-> chunks]
  ELSE LET parsed == parseChunk(buffer, cursor)
       IN  IF parsed.raised THEN ChunksThrew
           ELSE parseChunkArrayFrom(buffer, parsed.newIndex, end, Append(chunks, parsed.chunk))

parseChunk(buffer, index) ==
  IF ~(InRange(buffer, index, 4) /\ InRange(buffer, index + 4, 4)) THEN ChunkThrew
  ELSE
    LET tag == getStringFromUInt32(readUInt32BE(buffer, index))
        length == readUInt32BE(buffer, index + 4)
        done(kind, data) ==
          [raised |-> FALSE,
           chunk |-> [tag |-> tag, length |-> length, kind |-> kind, data |-> data],
           newIndex |-> index + length + 8]
    IN  IF tag \in {CHUNK_TAGS.OSES, CHUNK_TAGS.OENT, CHUNK_TAGS.OTRK, CHUNK_TAGS.ADAT} THEN
          LET inner == parseChunkArrayFrom(buffer, index + 8, index + 8 + length, <<>>)
          IN  IF inner.raised THEN ChunkThrew ELSE done("array", inner.chunks)
        ELSE IF tag \in {CHUNK_TAGS.INDEX, CHUNK_TAGS.BPM, CHUNK_TAGS.DECK} THEN
          IF ~InRange(buffer, index + 8, 4) THEN ChunkThrew
          ELSE done("number", readUInt32BE(buffer, index + 8))
        ELSE IF tag \in {CHUNK_TAGS.START_TIME, CHUNK_TAGS.PLAY_TIME} THEN
          IF ~InRange(buffer, index + 8, 4) THEN ChunkThrew
          ELSE done("date", readUInt32BE(buffer, index + 8) * 1000)
        ELSE IF tag = CHUNK_TAGS.PLAYED THEN
          IF ~InRange(buffer, index + 8, 1) THEN ChunkThrew
          ELSE done("number", readUInt8(buffer, index + 8))
        ELSE done("string", latin1WithoutNul(buffer, index + 8, index + 8 + length))

parseChunkArray(buffer, start, end) == parseChunkArrayFrom(buffer, start, end, <<>>)

\* adatChunk?.tag === CHUNK_TAGS.ADAT && Array.isArray(adatChunk.data), for chunk.data[0]
firstIsAdat(chunk) ==
  /\ Len(chunk.data) > 0
  /\ chunk.data[1].tag = CHUNK_TAGS.ADAT
  /\ chunk.data[1].kind = "array"

\* the value the loop over adatChunk.data leaves in a variable assigned
\* under `case tag`: the data of the last sub-chunk with the tag
RECURSIVE lastWithTag(_, _, _)
lastWithTag(subChunks, tag, default) ==
  IF Len(subChunks) = 0 THEN default
  ELSE IF subChunks[Len(subChunks)].tag = tag THEN subChunks[Len(subChunks)].data
  ELSE lastWithTag(SubSeq(subChunks, 1, Len(subChunks) - 1), tag, default)

hasTag(subChunks, tag) == \E i \in 1..Len(subChunks) : subChunks[i].tag = tag

optionalWithTag(subChunks, tag) ==
  IF hasTag(subChunks, tag) THEN <<lastWithTag(subChunks, tag, 0)>> ELSE <<>>

\* a derivation that looks at the start time only
playingWithoutPlayTime(truthy, startTime, playTime) ==
  IF truthy THEN startTime # <<>> ELSE FALSE

\* played ? (startTime !== undefined && playTime === undefined) : false
playingOf(truthy, startTime, playTime) ==
  IF truthy THEN startTime # <<>> /\ playTime = <<>> ELSE FALSE

songOf(subChunks) ==
  LET startTime == optionalWithTag(subChunks, CHUNK_TAGS.START_TIME)
      playTime == optionalWithTag(subChunks, CHUNK_TAGS.PLAY_TIME)
      played == optionalWithTag(subChunks, CHUNK_TAGS.PLAYED)
      truthy == played # <<>> /\ played[1] # 0
  IN  [title |-> lastWithTag(subChunks, CHUNK_TAGS.TITLE, <<>>),
       artist |-> lastWithTag(subChunks, CHUNK_TAGS.ARTIST, <<>>),
       bpm |-> optionalWithTag(subChunks, CHUNK_TAGS.BPM),
       filePath |-> lastWithTag(subChunks, CHUNK_TAGS.FILE_PATH, <<>>),
       startTime |-> startTime,
       playTime |-> playTime,
       played |-> truthy,
       playing |-> playingOf(truthy, startTime, playTime),
       deck |-> lastWithTag(subChunks, CHUNK_TAGS.DECK, 0)]

RECURSIVE songsOf(_)
songsOf(chunks) ==
  IF Len(chunks) = 0 THEN <<>>
  ELSE (IF chunks[1].tag = CHUNK_TAGS.OENT /\ chunks[1].kind = "array" /\ firstIsAdat(chunks[1])
        THEN <<songOf(chunks[1].data[1].data)>>
        ELSE <<>>) \o songsOf(Tail(chunks))

HistoryThrew == [raised |-> TRUE, value |-> <<>>]

\* getSessionSongs on the content of the session file
getSessionSongs(buffer) ==
  LET parsed == parseChunkArray(buffer, 0, Len(buffer))
  IN  IF parsed.raised THEN HistoryThrew
      ELSE [raised |-> FALSE, value |-> songsOf(parsed.chunks)]

\* Map.set(date, index): an existing key keeps its place and gets the value
mapSet(map, date, index) ==
  IF \E i \in 1..Len(map) : map[i].date = date
  THEN [i \in 1..Len(map) |->
         IF map[i].date = date THEN [date |-> date, index |-> index] ELSE map[i]]
  ELSE Append(map, [date |-> date, index |-> index])

RECURSIVE sessionsOf(_, _)
sessionsOf(chunks, sessions) ==
  IF Len(chunks) = 0 THEN sessions
  ELSE
    LET chunk == chunks[1]
        sub == chunk.data[1].data
        date == lastWithTag(sub, CHUNK_TAGS.SESSION_DATE, <<>>)
        index == lastWithTag(sub, CHUNK_TAGS.INDEX, -1)
    IN  sessionsOf(Tail(chunks),
          IF chunk.tag = CHUNK_TAGS.OSES /\ chunk.kind = "array" /\ firstIsAdat(chunk)
               /\ date # <<>> /\ index >= 0
          THEN mapSet(sessions, date, index)
          ELSE sessions)

\* getSessions on the content of history.database
getSessions(buffer) ==
  LET parsed == parseChunkArray(buffer, 0, Len(buffer))
  IN  IF parsed.raised THEN HistoryThrew
      ELSE [raised |-> FALSE, value |-> sessionsOf(parsed.chunks, <<>>)]

(***************************************************************************)
(* Inputs of the history checks: a session file of up to MaxSongs entries  *)
(* (oent > adat > fields) or a history.database of up to MaxSessions       *)
(* sessions (oses > adat > fields), followed by one of HistoryTails.       *)
(* Text is stored as UTF-16BE, as Serato writes it.                        *)
(***************************************************************************)
MaxSongs == 3

MaxSessions == 3

chunkBytes(tag, payload) == tag \o u32be(Len(payload)) \o payload

utf16be(str) == [i \in 1..2 * Len(str) |-> IF i % 2 = 1 THEN 0 ELSE str[i \div 2]]

optionalChunk(tag, opt) == IF opt = <<>> THEN <<>> ELSE chunkBytes(tag, u32be(opt[1]))

\* one entry of a session file, from the field values of a song
songBytes(song) ==
  chunkBytes(CHUNK_TAGS.OENT,
    chunkBytes(CHUNK_TAGS.ADAT,
      chunkBytes(CHUNK_TAGS.INDEX, u32be(song.row))
        \o chunkBytes(CHUNK_TAGS.FILE_PATH, utf16be(song.filePath) \o <<0, 0>>)
        \o chunkBytes(CHUNK_TAGS.TITLE, utf16be(song.title) \o <<0, 0>>)
        \o chunkBytes(CHUNK_TAGS.ARTIST, utf16be(song.artist) \o <<0, 0>>)
        \o optionalChunk(CHUNK_TAGS.BPM, song.bpm)
        \o optionalChunk(CHUNK_TAGS.START_TIME, song.startTime)
        \o optionalChunk(CHUNK_TAGS.PLAY_TIME, song.playTime)
        \o optionalChunk(CHUNK_TAGS.DECK, song.deck)
        \o (IF song.played = <<>> THEN <<>> ELSE chunkBytes(CHUNK_TAGS.PLAYED, song.played))
        \o chunkBytes(<<0, 0, 0, 48>>, <<1>>)))

Song(row, title, artist, bpm, startTime, playTime, deck, played) ==
  [row |-> row, title |-> title, artist |-> artist, filePath |-> <<47>> \o title,
   bpm |-> bpm, startTime |-> startTime, playTime |-> playTime, deck |-> deck,
   played |-> played]

SongCatalogue ==
  { Song(1, <<65>>, <<66>>, <<128>>, <<100>>, <<>>, <<1>>, <<1>>),
    Song(2, <<67>>, <<68>>, <<>>, <<200>>, <<30>>, <<2>>, <<1>>),
    Song(3, <<69>>, <<>>, <<>>, <<300>>, <<>>, <<3>>, <<0>>),
    Song(4, <<70>>, <<71>>, <<90>>, <<>>, <<>>, <<>>, <<>>),
    Song(5, <<72>>, <<73>>, <<>>, <<400>>, <<>>, <<7>>, <<1>>) }

\* the record the field values of a song stand for
songRecord(song) ==
  LET truthy == song.played # <<>> /\ song.played[1] # 0
  IN  [title |-> song.title, artist |-> song.artist, bpm |-> song.bpm,
       filePath |-> song.filePath,
       startTime |-> IF song.startTime = <<>> THEN <<>> ELSE <<song.startTime[1] * 1000>>,
       playTime |-> IF song.playTime = <<>> THEN <<>> ELSE <<song.playTime[1] * 1000>>,
       played |-> truthy,
       playing |-> truthy /\ song.startTime # <<>> /\ song.playTime = <<>>,
       deck |-> IF song.deck = <<>> THEN 0 ELSE song.deck[1]]

sessionBytes(session) ==
  chunkBytes(CHUNK_TAGS.OSES,
    chunkBytes(CHUNK_TAGS.ADAT,
      chunkBytes(CHUNK_TAGS.INDEX, u32be(session.index))
        \o chunkBytes(CHUNK_TAGS.SESSION_DATE, utf16be(session.date) \o <<0, 0>>)))

SessionCatalogue ==
  { [date |-> <<49, 47, 49>>, index |-> 12],
    [date |-> <<49, 47, 50>>, index |-> 0],
    [date |-> <<49, 47, 51>>, index |-> 300] }

RECURSIVE concatBytes(_, _)
concatBytes(Bytes(_), items) ==
  IF Len(items) = 0 THEN <<>> ELSE Bytes(items[1]) \o concatBytes(Bytes, Tail(items))

\* what may follow the last complete chunk: nothing, 3 bytes, a tag with
\* half a length, a complete leaf and one byte, a leaf declaring more than
\* remains, and a container declaring more than remains whose last field is
\* complete or itself cut
HistoryTails(container) ==
  { <<>>, <<0, 0, 0>>, container \o <<0, 0>>,
    chunkBytes(<<0, 0, 0, 99>>, <<1, 2>>) \o <<3>>,
    <<0, 0, 0, 99>> \o u32be(100) \o <<1, 2>>,
    container \o u32be(50) \o CHUNK_TAGS.ADAT \o u32be(42) \o chunkBytes(CHUNK_TAGS.INDEX, u32be(9)),
    container \o u32be(50) \o CHUNK_TAGS.ADAT \o u32be(42) \o CHUNK_TAGS.TITLE \o u32be(34) \o <<0, 90>> }

InitHistory ==
  /\ pc = "start"
  /\ \/ \E songs \in SeqsUpTo(SongCatalogue, MaxSongs), tail \in HistoryTails(CHUNK_TAGS.OENT) :
          input = [kind |-> "session", items |-> songs, tail |-> tail,
                   data |-> concatBytes(songBytes, songs) \o tail]
     \/ \E sessions \in SeqsUpTo(SessionCatalogue, MaxSessions), tail \in HistoryTails(CHUNK_TAGS.OSES) :
          input = [kind |-> "database", items |-> sessions, tail |-> tail,
                   data |-> concatBytes(sessionBytes, sessions) \o tail]
  /\ mid = [raised |-> FALSE, value |-> <<>>]
  /\ output = [raised |-> FALSE, value |-> <<>>]

GetSessionSongs ==
  /\ pc = "start"
  /\ input.kind = "session"
  /\ output' = getSessionSongs(input.data)
  /\ pc' = "done"
  /\ UNCHANGED <<input, mid>>

GetSessions ==
  /\ pc = "start"
  /\ input.kind = "database"
  /\ output' = getSessions(input.data)
  /\ pc' = "done"
  /\ UNCHANGED <<input, mid>>

NextHistory ==
  \/ GetSessionSongs
  \/ GetSessions

SpecHistory == InitHistory /\ [][NextHistory]_vars

RECURSIVE songRecords(_)
songRecords(songs) ==
  IF Len(songs) = 0 THEN <<>> ELSE <<songRecord(songs[1])>> \o songRecords(Tail(songs))

RECURSIVE sessionMap(_, _)
sessionMap(sessions, map) ==
  IF Len(sessions) = 0 THEN map
  ELSE sessionMap(Tail(sessions),
         IF \E i \in 1..Len(map) : map[i].date = sessions[1].date THEN map
         ELSE Append(map, sessions[1]))

\* C9: on a history buffer ending in bytes that are no complete chunk,
\* getSessionSongs and getSessions do not throw and return the records of
\* the complete chunks before those bytes.
C9_TruncatedTailTolerated ==
  pc = "done" =>
    /\ ~output.raised
    /\ input.kind = "session" => output.value = songRecords(input.items)
    /\ input.kind = "database" => output.value = sessionMap(input.items, <<>>)

\* ---------------------------------------------------------------------
\* Session files whose entries carry every combination of the played flag
\* (absent, 0, 1, 255), the start time and the play time (absent, 0, later)

PlayedFlags == {<<>>, <<0>>, <<1>>, <<255>>}

StartTimes == {<<>>, <<0>>, <<100>>}

PlayTimes == {<<>>, <<0>>, <<130>>}

MaxPlayed == 2

PlayedSongs ==
  { Song(1, <<65>>, <<66>>, <<>>, startTime, playTime, <<1>>, played) :
      startTime \in StartTimes, playTime \in PlayTimes, played \in PlayedFlags }

InitPlaying ==
  /\ pc = "start"
  /\ \E songs \in SeqsUpTo(PlayedSongs, MaxPlayed) :
       input = [kind |-> "session", items |-> songs, tail |-> <<>>,
                data |-> concatBytes(songBytes, songs)]
  /\ mid = [raised |-> FALSE, value |-> <<>>]
  /\ output = [raised |-> FALSE, value |-> <<>>]

NextPlaying == GetSessionSongs

SpecPlaying == InitPlaying /\ [][NextPlaying]_vars

\* C13: every song record returned by getSessionSongs has playing true
\* exactly when the entry's played byte is non-zero, it has a start-time
\* chunk and it has no play-time chunk; the record shows the same through
\* its played, startTime and playTime fields.
C13_PlayingDerived ==
  pc = "done" =>
    /\ ~output.raised
    /\ Len(output.value) = Len(input.items)
    /\ \A k \in 1..Len(output.value) :
         LET song == output.value[k]
             entry == input.items[k]
         IN  /\ song.playing <=>
                  /\ entry.played \notin {<<>>, <<0>>}
                  /\ entry.startTime # <<>>
                  /\ entry.playTime = <<>>
             /\ song.playing <=>
                  (song.played /\ song.startTime # <<>> /\ song.playTime = <<>>)

\* a playing song (played 255, start time 0, no play time) followed by a
\* finished one (played 1, start and play time)
C13_Witness ==
  /\ pc = "done"
  /\ Len(output.value) = 2
  /\ input.items[1].played = <<255>> /\ input.items[1].startTime = <<0>>
  /\ input.items[2].played = <<1>> /\ input.items[2].playTime = <<130>>
  /\ input.items[2].startTime = <<100>>

Tag ==
  [vrsn |-> <<118, 114, 115, 110>>,
   otrk |-> <<111, 116, 114, 107>>,
   ptrk |-> <<112, 116, 114, 107>>,
   pfil |-> <<112, 102, 105, 108>>,
   tsng |-> <<116, 115, 110, 103>>,
   tart |-> <<116, 97, 114, 116>>,
   talb |-> <<116, 97, 108, 98>>,
   tgen |-> <<116, 103, 101, 110>>,
   tkey |-> <<116, 107, 101, 121>>,
   tbpm |-> <<116, 98, 112, 109>>,
   tlen |-> <<116, 108, 101, 110>>,
   tbit |-> <<116, 98, 105, 116>>,
   tsmp |-> <<116, 115, 109, 112>>,
   ttyp |-> <<116, 116, 121, 112>>,
   bbgl |-> <<98, 98, 103, 108>>,
   bmis |-> <<98, 109, 105, 115>>,
   uadd |-> <<117, 97, 100, 100>>,
   tcom |-> <<116, 99, 111, 109>>,
   tgrp |-> <<116, 103, 114, 112>>,
   tcmp |-> <<116, 99, 109, 112>>,
   tlbl |-> <<116, 108, 98, 108>>,
   ttyr |-> <<116, 116, 121, 114>>]

\* subarray(offset, offset + 4).toString('ascii'): decoding as 'ascii'
\* clears the top bit of every byte
asciiTag(data, offset) == [i \in 1..4 |-> data[offset + i] % 128]

\* readUtf16BE of crate.ts: the byte pairs swapped into a zeroed buffer of
\* `length` bytes, decoded as UTF-16LE (an odd last byte is ignored), with
\* the NUL characters removed
crateReadUtf16BE(buffer, offset, length) ==
  LET bytes == subarray(buffer, offset, offset + length)
      byteAt(i) == IF i <= Len(bytes) THEN bytes[i] ELSE 0
      units == [k \in 1..(length \div 2) |-> byteAt(2 * k - 1) * 256 + byteAt(2 * k)]
  IN  SelectSeq(units, LAMBDA u : u # 0)

\* the check `offset + length > data.length` that never breaks
crateChunkFitsAlways(data, offset, length) == TRUE

\* negation of `offset + length > data.length` in the outer loop
crateChunkFits(data, offset, length) == offset + length <= Len(data)

\* negation of `trackOffset + innerLength > trackData.length`
crateInnerFits(trackData, trackOffset, innerLength) ==
  trackOffset + innerLength <= Len(trackData)

\* a push that puts the path in front of the ones collected so far
pushFront(trackPaths, trackPath) == <<trackPath>> \o trackPaths

\* trackPaths.push(trackPath)
push(trackPaths, trackPath) == Append(trackPaths, trackPath)

\* the inner while loop of parseCrateData over one otrk payload
RECURSIVE crateTrackPaths(_, _, _)
crateTrackPaths(trackData, trackOffset, trackPaths) ==
  IF trackOffset + 8 > Len(trackData) THEN trackPaths
  ELSE
    LET innerTag == asciiTag(trackData, trackOffset)
        innerLength == readUInt32BE(trackData, trackOffset + 4)
        at == trackOffset + 8
    IN  IF ~crateInnerFits(trackData, at, innerLength) THEN trackPaths
        ELSE
          LET trackPath == crateReadUtf16BE(trackData, at, innerLength)
          IN  crateTrackPaths(trackData, at + innerLength,
                IF innerTag = Tag.ptrk /\ trackPath # <<>>
                THEN push(trackPaths, trackPath)
                ELSE trackPaths)

\* the outer while loop of parseCrateData
RECURSIVE crateWalk(_, _, _)
crateWalk(data, offset, result) ==
  IF offset + 8 > Len(data) THEN result
  ELSE
    LET tag == asciiTag(data, offset)
        length == readUInt32BE(data, offset + 4)
        at == offset + 8
    IN  IF ~crateChunkFits(data, at, length) THEN result
        ELSE crateWalk(data, at + length,
               IF tag = Tag.vrsn THEN
                 [result EXCEPT !.version = <<crateReadUtf16BE(data, at, length)>>]
               ELSE IF tag = Tag.otrk THEN
                 [result EXCEPT !.trackPaths =
                    crateTrackPaths(subarray(data, at, at + length), 0, @)]
               ELSE result)

parseCrateData(data) ==
  crateWalk(data, 0, [raised |-> FALSE, version |-> <<>>, trackPaths |-> <<>>])

\* readUtf16BE of database.ts
dbReadUtf16BE(buffer, offset, length) ==
  IF length < 2 THEN <<>>
  ELSE
    LET bytes == subarray(buffer, offset, offset + length)
        byteAt(i) == IF i <= Len(bytes) THEN bytes[i] ELSE 0
        units == [k \in 1..(length \div 2) |-> byteAt(2 * k - 1) * 256 + byteAt(2 * k)]
    IN  SelectSeq(units, LAMBDA u : u # 0)

IsDigit(c) == c >= 48 /\ c <= 57

RECURSIVE digitsEnd(_, _)
digitsEnd(str, i) ==
  IF i <= Len(str) /\ IsDigit(str[i]) THEN digitsEnd(str, i + 1) ELSE i

RECURSIVE digitsValue(_, _, _, _)
digitsValue(str, i, j, acc) ==
  IF i >= j THEN acc ELSE digitsValue(str, i + 1, j, acc * 10 + (str[i] - 48))

RECURSIVE skipWhitespace(_, _)
skipWhitespace(str, i) ==
  IF i <= Len(str) /\ IsWhitespace(str[i]) THEN skipWhitespace(str, i + 1) ELSE i

\* parseInt(str, 10): <<>> for NaN
parseInt10(str) ==
  LET s == skipWhitespace(str, 1)
      signed == s <= Len(str) /\ str[s] \in {43, 45}
      d == IF signed THEN s + 1 ELSE s
      e == digitsEnd(str, d)
  IN  IF e = d THEN <<>>
      ELSE <<(IF signed /\ str[s] = 45 THEN -1 ELSE 1) * digitsValue(str, d, e, 0)>>

\* parseFloat(str) in thousandths, <<>> for NaN, on decimal text with at
\* most 3 decimals and no exponent (sign, digits, '.', digits)
parseFloatMilli(str) ==
  LET s == skipWhitespace(str, 1)
      signed == s <= Len(str) /\ str[s] \in {43, 45}
      d == IF signed THEN s + 1 ELSE s
      e == digitsEnd(str, d)
      hasPoint == e <= Len(str) /\ str[e] = 46
      f == IF hasPoint THEN digitsEnd(str, e + 1) ELSE e
      decimals == IF hasPoint THEN f - (e + 1) ELSE 0
      used == IF decimals > 3 THEN 3 ELSE decimals
      fraction == IF used = 0 THEN 0
                  ELSE digitsValue(str, e + 1, e + 1 + used, 0) * (10 ^ (3 - used))
  IN  IF e = d /\ decimals = 0 THEN <<>>
      ELSE <<(IF signed /\ str[s] = 45 THEN -1 ELSE 1)
               * (digitsValue(str, d, e, 0) * 1000 + fraction)>>

\* `x || undefined` for a number: NaN and 0 give undefined
orUndefined(n) == IF n = <<>> \/ n[1] = 0 THEN <<>> ELSE n

\* parseFieldValue: <<>> for null, else the value in a one-element sequence
parseFieldValue(tag, data) ==
  IF Len(data) = 0 THEN <<>>
  ELSE IF tag[1] \in {116, 112} THEN <<dbReadUtf16BE(data, 0, Len(data))>>
  ELSE IF tag[1] = 98 THEN <<data[1] # 0>>
  ELSE IF tag[1] = 117 THEN
    IF Len(data) >= 4 THEN <<readUInt32BE(data, 0)>> ELSE <<>>
  ELSE IF tag[1] = 115 THEN
    IF Len(data) >= 2 THEN <<data[1] * 256 + data[2]>> ELSE <<>>
  ELSE <<data>>

EmptyTrack ==
  [filePath |-> <<>>, title |-> <<>>, artist |-> <<>>, album |-> <<>>, genre |-> <<>>,
   key |-> <<>>, bpm |-> <<>>, length |-> <<>>, bitrate |-> <<>>, sampleRate |-> <<>>,
   fileType |-> <<>>, beatgridLocked |-> <<>>, missing |-> <<>>, dateAdded |-> <<>>,
   comment |-> <<>>, grouping |-> <<>>, composer |-> <<>>, label |-> <<>>, year |-> <<>>]

\* the switch on tag of parseTrackEntry
setTrackField(track, tag, value) ==
  IF tag = Tag.pfil THEN [track EXCEPT !.filePath = value]
  ELSE IF tag = Tag.tsng THEN [track EXCEPT !.title = value]
  ELSE IF tag = Tag.tart THEN [track EXCEPT !.artist = value]
  ELSE IF tag = Tag.talb THEN [track EXCEPT !.album = value]
  ELSE IF tag = Tag.tgen THEN [track EXCEPT !.genre = value]
  ELSE IF tag = Tag.tkey THEN [track EXCEPT !.key = value]
  ELSE IF tag = Tag.tbpm THEN [track EXCEPT !.bpm = orUndefined(parseFloatMilli(value[1]))]
  ELSE IF tag = Tag.tlen THEN [track EXCEPT !.length = orUndefined(parseFloatMilli(value[1]))]
  ELSE IF tag = Tag.tbit THEN [track EXCEPT !.bitrate = orUndefined(parseInt10(value[1]))]
  ELSE IF tag = Tag.tsmp THEN [track EXCEPT !.sampleRate = orUndefined(parseInt10(value[1]))]
  ELSE IF tag = Tag.ttyp THEN [track EXCEPT !.fileType = value]
  ELSE IF tag = Tag.bbgl THEN [track EXCEPT !.beatgridLocked = value]
  ELSE IF tag = Tag.bmis THEN [track EXCEPT !.missing = value]
  ELSE IF tag = Tag.uadd THEN
    IF value[1] > 0 THEN [track EXCEPT !.dateAdded = <<value[1] * 1000>>] ELSE track
  ELSE IF tag = Tag.tcom THEN [track EXCEPT !.comment = value]
  ELSE IF tag = Tag.tgrp THEN [track EXCEPT !.grouping = value]
  ELSE IF tag = Tag.tcmp THEN [track EXCEPT !.composer = value]
  ELSE IF tag = Tag.tlbl THEN [track EXCEPT !.label = value]
  ELSE IF tag = Tag.ttyr THEN [track EXCEPT !.year = orUndefined(parseInt10(value[1]))]
  ELSE track

\* negation of `offset + length > data.length` in parseTrackEntry
dbFieldFits(data, offset, length) == offset + length <= Len(data)

\* the while loop of parseTrackEntry
RECURSIVE trackFields(_, _, _)
trackFields(data, offset, track) ==
  IF offset + 8 > Len(data) THEN track
  ELSE
    LET tag == asciiTag(data, offset)
        length == readUInt32BE(data, offset + 4)
        at == offset + 8
    IN  IF ~dbFieldFits(data, at, length) THEN track
        ELSE
          LET value == parseFieldValue(tag, subarray(data, at, at + length))
          IN  trackFields(data, at + length,
                IF value = <<>> THEN track ELSE setTrackField(track, tag, value))

\* a parseTrackEntry that returns the track whether or not it has a path
parseTrackEntryKeepingAll(data) == <<trackFields(data, 0, EmptyTrack)>>

\* parseTrackEntry: <<>> for null, else the track in a one-element sequence
parseTrackEntry(data) ==
  LET track == trackFields(data, 0, EmptyTrack)
  IN  IF track.filePath = <<>> \/ track.filePath = << <<>> >> THEN <<>> ELSE <<track>>

\* negation of `offset + length > data.length` in parseDatabaseData
dbChunkFits(data, offset, length) == offset + length <= Len(data)

\* the while loop of parseDatabaseData
RECURSIVE dbWalk(_, _, _)
dbWalk(data, offset, tracks) ==
  IF offset + 8 > Len(data) THEN tracks
  ELSE
    LET tag == asciiTag(data, offset)
        length == readUInt32BE(data, offset + 4)
        at == offset + 8
    IN  IF ~dbChunkFits(data, at, length) THEN tracks
        ELSE dbWalk(data, at + length,
               IF tag = Tag.otrk
               THEN tracks \o parseTrackEntry(subarray(data, at, at + length))
               ELSE tracks)

parseDatabaseData(data) == [raised |-> FALSE, tracks |-> dbWalk(data, 0, <<>>)]

(***************************************************************************)
(* Inputs of the crate and database checks: up to MaxChunks top-level      *)
(* chunks, each complete and built from the values its decoding should     *)
(* give, followed by one of LibraryTails.                                  *)
(***************************************************************************)
MaxChunks == 3

crateVersion(text) ==
  [bytes |-> chunkBytes(Tag.vrsn, utf16be(text)), version |-> <<text>>, paths |-> <<>>]

ptrkBytes(path) == chunkBytes(Tag.ptrk, utf16be(path))

crateTrack(before, paths) ==
  [bytes |-> chunkBytes(Tag.otrk, before \o concatBytes(ptrkBytes, paths)),
   version |-> <<>>, paths |-> paths]

crateOther(tag, payload) ==
  [bytes |-> chunkBytes(tag, payload), version |-> <<>>, paths |-> <<>>]

PathA == <<47, 97>>

PathB == <<47, 98>>

PathC == <<47, 99>>

CrateCatalogue ==
  { crateVersion(<<49, 46, 48>>),
    crateTrack(<<>>, <<PathA>>),
    crateTrack(<<>>, <<PathB>>),
    crateTrack(chunkBytes(Tag.tsng, utf16be(<<84>>)), <<PathC, PathA>>),
    crateTrack(<<>>, <<>>),
    crateOther(<<111, 115, 114, 116>>, crateTrack(<<>>, <<PathC>>).bytes) }

\* what may follow the last complete chunk: nothing, 3 bytes, a tag with 3
\* bytes of length, an otrk declaring more than remains around a complete
\* ptrk / pfil, and 9 bytes whose length field is huge
LibraryTails ==
  { <<>>, <<0, 1, 2>>, Tag.otrk \o <<0, 0, 0>>,
    Tag.otrk \o u32be(100) \o ptrkBytes(<<47, 120>>) \o chunkBytes(Tag.pfil, utf16be(<<47, 120>>)),
    <<111, 116, 114, 107, 64, 0, 0, 0, 1>> }

track(fields) == [f \in DOMAIN EmptyTrack |-> IF f \in DOMAIN fields THEN <<fields[f]>> ELSE <<>>]

dbItem(bytes, tracks) == [bytes |-> bytes, tracks |-> tracks]

TrackA ==
  dbItem(chunkBytes(Tag.otrk,
           chunkBytes(Tag.ttyp, utf16be(<<109, 112, 51>>))
             \o chunkBytes(Tag.pfil, utf16be(PathA))
             \o chunkBytes(Tag.tsng, utf16be(<<84>>))
             \o chunkBytes(Tag.tart, utf16be(<<65>>))
             \o chunkBytes(Tag.tbpm, utf16be(<<49, 50, 56, 46, 53, 48>>))
             \o chunkBytes(Tag.tlen, utf16be(<<50, 49, 48>>))
             \o chunkBytes(Tag.tbit, utf16be(<<51, 50, 48, 46, 48, 107>>))
             \o chunkBytes(Tag.uadd, u32be(1000))
             \o chunkBytes(Tag.bbgl, <<1>>)
             \o chunkBytes(Tag.bmis, <<0>>)),
         <<track([fileType |-> <<109, 112, 51>>, filePath |-> PathA, title |-> <<84>>,
                  artist |-> <<65>>, bpm |-> 128500, length |-> 210000, bitrate |-> 320,
                  dateAdded |-> 1000000, beatgridLocked |-> TRUE, missing |-> FALSE])>>)

TrackB ==
  dbItem(chunkBytes(Tag.otrk,
           chunkBytes(Tag.pfil, utf16be(PathB))
             \o chunkBytes(Tag.tbpm, utf16be(<<110, 47, 97>>))
             \o chunkBytes(Tag.ttyr, utf16be(<<50, 48, 50, 48>>))
             \o chunkBytes(Tag.tkey, <<>>)
             \o chunkBytes(Tag.uadd, <<0, 1>>)
             \o chunkBytes(<<117, 116, 109, 101>>, u32be(7))),
         <<track([filePath |-> PathB, year |-> 2020])>>)

\* a record without pfil
TrackNoPath ==
  dbItem(chunkBytes(Tag.otrk, chunkBytes(Tag.tsng, utf16be(<<88>>)) \o chunkBytes(Tag.tart, utf16be(<<89>>))),
         <<>>)

\* a record whose last field declares more than the record holds
TrackCutField ==
  dbItem(chunkBytes(Tag.otrk,
           chunkBytes(Tag.pfil, utf16be(PathC)) \o Tag.tsng \o u32be(40) \o utf16be(<<90>>)),
         <<track([filePath |-> PathC])>>)

DatabaseCatalogue ==
  { dbItem(chunkBytes(Tag.vrsn, utf16be(<<50, 46, 48>>)), <<>>),
    TrackA, TrackB, TrackNoPath, TrackCutField }

InitLibrary ==
  /\ pc = "start"
  /\ \/ \E items \in SeqsUpTo(CrateCatalogue, MaxChunks), tail \in LibraryTails :
          input = [kind |-> "crate", items |-> items, tail |-> tail,
                   data |-> concatField(items, "bytes", 1) \o tail]
     \/ \E items \in SeqsUpTo(DatabaseCatalogue, MaxChunks), tail \in LibraryTails :
          input = [kind |-> "database", items |-> items, tail |-> tail,
                   data |-> concatField(items, "bytes", 1) \o tail]
  /\ mid = <<>>
  /\ output = [raised |-> FALSE]

ParseCrateData ==
  /\ pc = "start"
  /\ input.kind = "crate"
  /\ output' = parseCrateData(input.data)
  /\ pc' = "done"
  /\ UNCHANGED <<input, mid>>

ParseDatabaseData ==
  /\ pc = "start"
  /\ input.kind = "database"
  /\ output' = parseDatabaseData(input.data)
  /\ pc' = "done"
  /\ UNCHANGED <<input, mid>>

NextLibrary ==
  \/ ParseCrateData
  \/ ParseDatabaseData

SpecLibrary == InitLibrary /\ [][NextLibrary]_vars

\* the version of the last vrsn chunk among the items, <<>> if none
RECURSIVE lastVersion(_)
lastVersion(items) ==
  IF Len(items) = 0 THEN <<>>
  ELSE IF items[Len(items)].version # <<>> THEN items[Len(items)].version
  ELSE lastVersion(SubSeq(items, 1, Len(items) - 1))

\* C10: parseCrateData and parseDatabaseData never throw; once fewer than 8
\* bytes remain or a chunk declares more bytes than remain they stop, and
\* the result holds exactly what the complete top-level chunks before that
\* point decode to (no track at all if there is none).
C10_LibraryTailTolerated ==
  pc = "done" =>
    /\ ~output.raised
    /\ input.kind = "crate" =>
         /\ output.version = lastVersion(input.items)
         /\ output.trackPaths = concatField(input.items, "paths", 1)
    /\ input.kind = "database" =>
         output.tracks = concatField(input.items, "tracks", 1)

\* two complete otrk chunks, then an otrk that declares 100 bytes of which
\* only 24 are present
C10_Witness ==
  /\ pc = "done"
  /\ input.kind = "crate"
  /\ Len(input.items) = 2
  /\ Len(input.tail) = 32
  /\ input.tail[8] = 100
  /\ output.trackPaths = <<PathC, PathA, PathB>>

\* ---------------------------------------------------------------------
\* Well-formed crate buffers: every chunk complete, nothing after the last

\* an otrk chunk whose children are `before` and then one ptrk per payload;
\* ptrks are the decoded payloads (NULs stripped) in file order
crateTrackOf(before, payloads) ==
  [bytes |-> chunkBytes(Tag.otrk,
               before \o concatBytes(LAMBDA payload : chunkBytes(Tag.ptrk, payload), payloads)),
   ptrks |-> [k \in 1..Len(payloads) |->
                crateReadUtf16BE(payloads[k], 0, Len(payloads[k]))]]

crateChunkOf(tag, payload) == [bytes |-> chunkBytes(tag, payload), ptrks |-> <<>>]

\* otrk chunks with one, two, repeated, empty and NUL-only ptrk payloads, an
\* otrk with another child first, a ptrk outside any otrk, a vrsn chunk and
\* an otrk nested in an otrk
OrderedCrateCatalogue ==
  { crateChunkOf(Tag.vrsn, utf16be(<<49, 46, 48>>)),
    crateTrackOf(<<>>, <<utf16be(PathA)>>),
    crateTrackOf(<<>>, <<utf16be(PathB), utf16be(PathA)>>),
    crateTrackOf(<<>>, <<utf16be(PathC), utf16be(PathC)>>),
    crateTrackOf(chunkBytes(Tag.tsng, utf16be(<<84>>)), <<utf16be(PathB)>>),
    crateTrackOf(<<>>, <<utf16be(PathA), <<>>, utf16be(PathC)>>),
    crateTrackOf(<<>>, <<<<0, 0>>>>),
    crateChunkOf(Tag.ptrk, utf16be(PathC)),
    crateChunkOf(Tag.otrk, crateTrackOf(<<>>, <<utf16be(PathB)>>).bytes) }

InitCrateOrder ==
  /\ pc = "start"
  /\ \E items \in SeqsUpTo(OrderedCrateCatalogue, MaxChunks) :
       input = [kind |-> "crate", items |-> items, tail |-> <<>>,
                data |-> concatField(items, "bytes", 1)]
  /\ mid = <<>>
  /\ output = [raised |-> FALSE]

\* a database record and what it holds: path is the decoded payload of its
\* pfil chunk as a one-element sequence, <<>> when it has no pfil chunk
dbRecord(item, path) == [bytes |-> item.bytes, tracks |-> item.tracks, path |-> path]

\* records whose pfil chunk has no payload, a NUL payload, a 1-byte payload
TrackEmptyPath ==
  dbItem(chunkBytes(Tag.otrk, chunkBytes(Tag.pfil, <<>>) \o chunkBytes(Tag.tsng, utf16be(<<69>>))),
         <<>>)

TrackNulPath ==
  dbItem(chunkBytes(Tag.otrk, chunkBytes(Tag.tsng, utf16be(<<78>>)) \o chunkBytes(Tag.pfil, <<0, 0>>)),
         <<>>)

TrackBytePath ==
  dbItem(chunkBytes(Tag.otrk, chunkBytes(Tag.pfil, <<47>>)), <<>>)

OrderedDatabaseCatalogue ==
  { dbRecord(dbItem(chunkBytes(Tag.vrsn, utf16be(<<50, 46, 48>>)), <<>>), <<>>),
    dbRecord(TrackA, <<PathA>>),
    dbRecord(TrackB, <<PathB>>),
    dbRecord(TrackNoPath, <<>>),
    dbRecord(TrackEmptyPath, <<<<>>>>),
    dbRecord(TrackNulPath, <<<<>>>>),
    dbRecord(TrackBytePath, <<<<>>>>) }

InitDatabaseOrder ==
  /\ pc = "start"
  /\ \E items \in SeqsUpTo(OrderedDatabaseCatalogue, MaxChunks) :
       input = [kind |-> "database", items |-> items, tail |-> <<>>,
                data |-> concatField(items, "bytes", 1)]
  /\ mid = <<>>
  /\ output = [raised |-> FALSE]

InitLibraryOrder == InitCrateOrder \/ InitDatabaseOrder

SpecLibraryOrder == InitLibraryOrder /\ [][NextLibrary]_vars

\* the decoded payloads of the ptrk children of the top-level otrk chunks
ptrkPayloads(items) == concatField(items, "ptrks", 1)

\* C11 as stated: for a well-formed crate buffer trackPaths is the sequence
\* of decoded payloads of all ptrk chunks inside the top-level otrk chunks,
\* in file order.
C11_AllPtrkPayloads ==
  (pc = "done" /\ input.kind = "crate") => output.trackPaths = ptrkPayloads(input.items)

\* C11: for a well-formed crate buffer trackPaths is the sequence of the
\* non-empty decoded payloads of the ptrk chunks directly inside the
\* top-level otrk chunks, in file order, repeated paths kept; a ptrk whose
\* payload decodes to the empty string is left out.
C11_NonEmptyPtrkPayloads ==
  (pc = "done" /\ input.kind = "crate") =>
    /\ ~output.raised
    /\ output.trackPaths = SelectSeq(ptrkPayloads(input.items), LAMBDA path : path # <<>>)

\* a crate with a repeated path, then an otrk holding an empty ptrk between
\* two paths, then an otrk with two different paths
C11_Witness ==
  /\ pc = "done"
  /\ input.kind = "crate"
  /\ Len(input.items) = 3
  /\ ptrkPayloads(input.items) = <<PathC, PathC, PathA, <<>>, PathC, PathB, PathA>>
  /\ output.trackPaths = <<PathC, PathC, PathA, PathC, PathB, PathA>>

\* the decoded pfil payloads of the records that have a pfil chunk
pfilPayloads(items) == concatField(items, "path", 1)

\* filePath of every track of the result, in order
filePaths(tracks) == [k \in 1..Len(tracks) |-> tracks[k].filePath[1]]

\* C12 as stated: a record with no pfil chunk contributes no track and does
\* not raise, and every other otrk record has its track in the result, in
\* file order.
C12_RecordsWithPfilKept ==
  (pc = "done" /\ input.kind = "database") =>
    /\ ~output.raised
    /\ filePaths(output.tracks) = pfilPayloads(input.items)

\* C12: parseDatabaseData does not raise on a buffer of well-formed chunks;
\* a record with no pfil chunk, or whose pfil payload decodes to the empty
\* string, contributes no track, and the tracks of the records with a
\* non-empty file path are the result, in file order.
C12_RecordsWithFilePathKept ==
  (pc = "done" /\ input.kind = "database") =>
    /\ ~output.raised
    /\ output.tracks = concatField(input.items, "tracks", 1)
    /\ filePaths(output.tracks) = SelectSeq(pfilPayloads(input.items), LAMBDA path : path # <<>>)

\* a record with a path, one with no pfil, one with a path
C12_Witness ==
  /\ pc = "done"
  /\ input.kind = "database"
  /\ Len(input.items) = 3
  /\ input.items[2].bytes = TrackNoPath.bytes
  /\ filePaths(output.tracks) = <<PathB, PathA>>

(***************************************************************************)
(* parsers/geob/beatgrid.ts                                                *)
(*                                                                         *)
(* A float32 is held as its 4 bytes.  A marker is a record whose bpm and   *)
(* beatsToNext are <<>> when the property is absent and a one-element      *)
(* sequence when it is present.                                            *)
(***************************************************************************)
HEADER_SIZE == 6

MARKER_SIZE == 8

FOOTER_SIZE == 1

\* Buffer.readFloatBE
readFloatBE(data, offset) == SubSeq(data, offset + 1, offset + 4)

parseTerminalMarker(data, offset) ==
  [position |-> readFloatBE(data, offset),
   bpm |-> <<readFloatBE(data, offset + 4)>>,
   beatsToNext |-> <<>>]

parseNonTerminalMarker(data, offset) ==
  [position |-> readFloatBE(data, offset),
   bpm |-> <<>>,
   beatsToNext |-> <<readUInt32BE(data, offset + 4)>>]

BeatgridRaised == [raised |-> TRUE, markers |-> <<>>]

\* a length check that asks for the header and one marker only
hasAllMarkersFirstOnly(data, markerCount) ==
  Len(data) >= HEADER_SIZE + MARKER_SIZE

\* negation of `data.length < expectedLength - FOOTER_SIZE`
hasAllMarkers(data, markerCount) ==
  LET expectedLength == HEADER_SIZE + markerCount * MARKER_SIZE + FOOTER_SIZE
  IN  ~(Len(data) < expectedLength - FOOTER_SIZE)

\* a loop that parses every marker as a non-terminal one
isTerminalNever(i, markerCount) == FALSE

\* const isTerminal = i === markerCount - 1
isTerminal(i, markerCount) == i = markerCount - 1

\* the for loop of parseBeatgrid; a read outside the buffer throws
beatgridMarkers(data, markerCount) ==
  IF \E i \in 0..(markerCount - 1) : ~InRange(data, HEADER_SIZE + i * MARKER_SIZE, MARKER_SIZE)
  THEN BeatgridRaised
  ELSE [raised |-> FALSE,
        markers |-> [k \in 1..markerCount |->
                       LET i == k - 1
                           offset == HEADER_SIZE + i * MARKER_SIZE
                       IN  IF isTerminal(i, markerCount)
                           THEN parseTerminalMarker(data, offset)
                           ELSE parseNonTerminalMarker(data, offset)]]

parseBeatgrid(data) ==
  LET result == [raised |-> FALSE, markers |-> <<>>]
  IN  IF Len(data) < HEADER_SIZE THEN result
      ELSE
        LET markerCount == readUInt32BE(data, 2)
        IN  IF markerCount = 0 THEN result
            ELSE IF ~hasAllMarkers(data, markerCount) THEN result
            ELSE beatgridMarkers(data, markerCount)

\* ---------------------------------------------------------------------
\* Beatgrid buffers: fewer than 6 bytes, or a header declaring 0 to
\* MaxMarkers + 1 or 16777216 markers followed by up to MaxMarkers markers
\* and then nothing, the footer, or 3 or 7 bytes

MaxMarkers == 3

MarkerCatalogue ==
  { <<0, 0, 0, 0, 66, 240, 0, 0>>,
    <<63, 0, 0, 0, 0, 0, 0, 16>>,
    <<65, 64, 0, 0, 67, 12, 0, 0>> }

BeatgridTails == { <<>>, <<0>>, <<9, 9, 9>>, <<9, 9, 9, 9, 9, 9, 9>> }

InitBeatgrid ==
  /\ pc = "start"
  /\ \/ \E n \in 0..(HEADER_SIZE - 1) :
          input = [declared |-> 0, present |-> <<>>, tail |-> <<>>,
                   data |-> [i \in 1..n |-> 1]]
     \/ \E declared \in 0..(MaxMarkers + 1) \cup {16777216},
           present \in SeqsUpTo(MarkerCatalogue, MaxMarkers),
           tail \in BeatgridTails :
          input = [declared |-> declared, present |-> present, tail |-> tail,
                   data |-> <<1, 0>> \o u32be(declared) \o concatBytes(LAMBDA marker : marker, present) \o tail]
  /\ mid = <<>>
  /\ output = [raised |-> FALSE, markers |-> <<>>]

ParseBeatgrid ==
  /\ pc = "start"
  /\ output' = parseBeatgrid(input.data)
  /\ pc' = "done"
  /\ UNCHANGED <<input, mid>>

NextBeatgrid == ParseBeatgrid

SpecBeatgrid == InitBeatgrid /\ [][NextBeatgrid]_vars

\* C14: in every parseBeatgrid result with n >= 1 markers the last marker
\* has bpm and no beatsToNext and each of the n - 1 markers before it has
\* beatsToNext and no bpm.
C14_TerminalIsLast ==
  pc = "done" =>
    LET markers == output.markers
        n == Len(markers)
    IN  n >= 1 =>
          /\ markers[n].bpm # <<>> /\ markers[n].beatsToNext = <<>>
          /\ \A k \in 1..(n - 1) : markers[k].beatsToNext # <<>> /\ markers[k].bpm = <<>>

\* three markers declared and present: two non-terminal, then the terminal
C14_Witness ==
  /\ pc = "done"
  /\ input.declared = 3
  /\ Len(output.markers) = 3
  /\ output.markers[1].beatsToNext = <<16>>
  /\ output.markers[3].bpm = <<<<67, 12, 0, 0>>>>

\* the bytes of the buffer after the header hold all declared markers
holdsDeclared(data, declared) == Len(data) - HEADER_SIZE >= declared * MARKER_SIZE

\* C15: parseBeatgrid never raises and returns no marker or exactly the
\* declared number of markers: none when the buffer has fewer than 6
\* bytes, declares 0 markers or is too short for the declared 8-byte
\* markers, and all declared markers otherwise.
C15_AllOrNothing ==
  pc = "done" =>
    /\ ~output.raised
    /\ Len(output.markers) \in {0, input.declared}
    /\ Len(output.markers) = 0 <=>
         \/ Len(input.data) < HEADER_SIZE
         \/ input.declared = 0
         \/ ~holdsDeclared(input.data, input.declared)

\* four markers declared, three present and 7 bytes of a fourth: nothing is
\* returned
C15_Witness ==
  /\ pc = "done"
  /\ input.declared = 4
  /\ Len(input.present) = 3
  /\ Len(input.tail) = 7
  /\ output.markers = <<>>

(***************************************************************************)
(* parsers/geob/autotags.ts                                                *)
(*                                                                         *)
(* A parsed number is held in thousandths.                                 *)
(***************************************************************************)
HEADER == <<1, 1>>

BPM_SIZE == 7

AUTOGAIN_SIZE == 7

GAINDB_SIZE == 6

RECURSIVE asciiEnd(_, _, _)
asciiEnd(buffer, end, limit) ==
  IF end < limit /\ buffer[end + 1] # 0 THEN asciiEnd(buffer, end + 1, limit) ELSE end

\* readAsciiString; toString('ascii') clears the top bit of every byte
readAsciiString(buffer, offset, maxLength) ==
  LET limit == IF offset + maxLength < Len(buffer) THEN offset + maxLength ELSE Len(buffer)
      bytes == subarray(buffer, offset, asciiEnd(buffer, offset, limit))
  IN  [i \in 1..Len(bytes) |-> bytes[i] % 128]

\* parseFloat of the field at offset, `previous` when it is NaN
autotagsField(data, offset, size, previous) ==
  LET parsed == parseFloatMilli(readAsciiString(data, offset, size))
  IN  IF parsed = <<>> THEN previous ELSE parsed[1]

parseAutotags(data) ==
  LET start == IF Len(data) >= 2 /\ data[1] = HEADER[1] /\ data[2] = HEADER[2] THEN 2 ELSE 0
      hasBpm == start + BPM_SIZE <= Len(data)
      afterBpm == IF hasBpm THEN start + BPM_SIZE ELSE start
      hasAutoGain == afterBpm + AUTOGAIN_SIZE <= Len(data)
      afterAutoGain == IF hasAutoGain THEN afterBpm + AUTOGAIN_SIZE ELSE afterBpm
      hasGainDb == afterAutoGain + GAINDB_SIZE <= Len(data)
  IN  [raised |-> FALSE,
       bpm |-> IF hasBpm THEN autotagsField(data, start, BPM_SIZE, 0) ELSE 0,
       autoGain |-> IF hasAutoGain THEN autotagsField(data, afterBpm, AUTOGAIN_SIZE, 0) ELSE 0,
       gainDb |-> IF hasGainDb THEN autotagsField(data, afterAutoGain, GAINDB_SIZE, 0) ELSE 0]

\* ---------------------------------------------------------------------
\* Autotags buffers: with or without the header, a bpm, an auto gain and a
\* gain dB field (numbers, text that is no number, no text, bytes with the
\* top bit set), cut after any number of bytes

\* "115.00", "abc", "", "12.5xyz"
BpmFields ==
  { <<49, 49, 53, 46, 48, 48, 0>>, <<97, 98, 99, 0, 0, 0, 0>>,
    <<0, 0, 0, 0, 0, 0, 0>>, <<49, 50, 46, 53, 120, 121, 122>> }

\* "-3.257", "+1.5", bytes 0xFF
AutoGainFields ==
  { <<45, 51, 46, 50, 53, 55, 0>>, <<43, 49, 46, 53, 0, 0, 0>>,
    <<255, 255, 255, 255, 255, 255, 255>> }

\* "0.000", "2.500", "-"
GainDbFields ==
  { <<48, 46, 48, 48, 48, 0>>, <<50, 46, 53, 48, 48, 0>>, <<45, 0, 0, 0, 0, 0>> }

InitAutotags ==
  /\ pc = "start"
  /\ \E header \in {<<>>, HEADER}, bpm \in BpmFields, autoGain \in AutoGainFields,
        gainDb \in GainDbFields :
       \E n \in 0..Len(header \o bpm \o autoGain \o gainDb) :
         input = [header |-> header, bpm |-> bpm, autoGain |-> autoGain, gainDb |-> gainDb,
                  data |-> SubSeq(header \o bpm \o autoGain \o gainDb, 1, n)]
  /\ mid = <<>>
  /\ output = [raised |-> FALSE, bpm |-> 0, autoGain |-> 0, gainDb |-> 0]

ParseAutotags ==
  /\ pc = "start"
  /\ output' = parseAutotags(input.data)
  /\ pc' = "done"
  /\ UNCHANGED <<input, mid>>

NextAutotags == ParseAutotags

SpecAutotags == InitAutotags /\ [][NextAutotags]_vars

\* the number a field's text parses to, 0 when it is no number
numberOf(field) ==
  LET parsed == parseFloatMilli(readAsciiString(field, 0, Len(field)))
  IN  IF parsed = <<>> THEN 0 ELSE parsed[1]

\* C16: parseAutotags never raises, and each of bpm, autoGain and gainDb is
\* the number its own field parses to, or 0 when the buffer does not hold
\* that field or the field's text is no number.
C16_FieldOrZero ==
  pc = "done" =>
    LET bpmEnd == Len(input.header) + BPM_SIZE
        autoGainEnd == bpmEnd + AUTOGAIN_SIZE
        gainDbEnd == autoGainEnd + GAINDB_SIZE
        value(field, end) == IF Len(input.data) >= end THEN numberOf(field) ELSE 0
    IN  /\ ~output.raised
        /\ output.bpm = value(input.bpm, bpmEnd)
        /\ output.autoGain = value(input.autoGain, autoGainEnd)
        /\ output.gainDb = value(input.gainDb, gainDbEnd)

\* C24: with h = 2 when the buffer begins with 0x01 0x01 and 0 otherwise,
\* bpm is the number parsed from bytes h..h+6, autoGain from bytes
\* h+7..h+13 and gainDb from bytes h+14..h+19, and a field the buffer is
\* too short to hold is 0.
C24_FixedPositions ==
  pc = "done" =>
    LET data == input.data
        h == IF Len(data) >= 2 /\ data[1] = 1 /\ data[2] = 1 THEN 2 ELSE 0
        at(from, size) ==
          IF from + size <= Len(data) THEN numberOf(SubSeq(data, from + 1, from + size)) ELSE 0
    IN  /\ output.bpm = at(h, BPM_SIZE)
        /\ output.autoGain = at(h + BPM_SIZE, AUTOGAIN_SIZE)
        /\ output.gainDb = at(h + BPM_SIZE + AUTOGAIN_SIZE, GAINDB_SIZE)

(***************************************************************************)
(* seratoConnect.ts: class SeratoConnect                                   *)
(*                                                                         *)
(* The four variables hold, for this class:                                *)
(*   mid     the private fields of the object (isRunning, pollTimer,       *)
(*           decks, lastTrackHash, lastSessionMtime, lastSessionPath);     *)
(*   pc      the calls of start() and poll() suspended at an await, each   *)
(*           with the value its promise will settle to;                    *)
(*   input   the Serato folder: whether it and its History folder exist,   *)
(*           whether history.database can be read, and the latest session  *)
(*           file (path index, mtime, the songs getSessionSongs decodes    *)
(*           from it, or unreadable);                                      *)
(*   output  the events emitted so far, the intervals scheduled in the     *)
(*           runtime (setInterval adds one, clearInterval removes one),    *)
(*           and the counts of calls made.                                 *)
(* Code between two awaits runs without interruption, so every action is   *)
(* one such stretch.  A file is read when the reading call is made.  An    *)
(* 'error' listener is registered.  pollTimer and lastSessionPath are 0    *)
(* for null; an absent song or time is <<>>.                               *)
(***************************************************************************)
MaxStarts == 2

MaxStops == 1

MaxTicks == 2

MaxChanges == 1

NoDeck == [song |-> <<>>, playing |-> FALSE]

\* the fields after the constructor, and after stop()
InitialFields ==
  [isRunning |-> FALSE, pollTimer |-> 0, decks |-> [i \in 1..4 |-> NoDeck],
   lastTrackHash |-> <<>>, lastSessionMtime |-> 0, lastSessionPath |-> 0]

\* this.emit(type, ...): the event, what it carries (the identity of the
\* track of a `track` event; the songs read and the tracks given of a
\* `history` event; the path and mtime of the file whose reading failed of
\* an `error` event of poll()), and whether stop() was the last of start()
\* and stop() to be called
emit(out, type, carried) ==
  [out EXCEPT !.log = Append(@, [type |-> type, track |-> carried, stopped |-> out.stopped,
                                 stops |-> out.stops])]

\* (artist, title, startTime) of a song
identity(song) == <<song.artist, song.title, song.startTime>>

\* hashTrack: `${artist}|${title}|` and the number startTime?.getTime() || 0,
\* whose decimal digits end the string
hashTrack(song) ==
  [text |-> song.artist \o <<124>> \o song.title \o <<124>>,
   time |-> IF song.startTime = <<>> THEN 0 ELSE song.startTime[1]]

\* a comparison that puts the latest start first
startsAfter(a, b) == a > b

\* the sort comparison aTime - bTime < 0
startsBefore(a, b) == a < b

\* getNowPlaying: <<>> for null, else the song in a one-element sequence
getNowPlaying(decks) ==
  LET playingDecks == {i \in 1..Len(decks) : decks[i].playing /\ decks[i].song # <<>>}
      time(i) == hashTrack(decks[i].song[1]).time
      first == CHOOSE i \in playingDecks :
                 \A j \in playingDecks \ {i} :
                   startsBefore(time(i), time(j)) \/ (time(i) = time(j) /\ i < j)
  IN  IF playingDecks = {} THEN <<>> ELSE decks[first].song

\* this.decks[index] = state, index counted from 0: an index past the end
\* lengthens the array (the elements between are holes, which filter()
\* passes over as it does a deck that is not playing), a negative index
\* sets a property and leaves the elements alone
setDeck(decks, index, state) ==
  IF index < 0 THEN decks
  ELSE IF index < Len(decks) THEN [decks EXCEPT ![index + 1] = state]
  ELSE decks \o [i \in 1..(index - Len(decks)) |-> NoDeck] \o <<state>>

\* updateDeckStates
RECURSIVE updateDeckStates(_, _)
updateDeckStates(decks, songs) ==
  IF Len(songs) = 0 THEN decks
  ELSE
    LET song == songs[1]
        playing == song.startTime # <<>> /\ song.playTime = <<>>
    IN  updateDeckStates(
          IF song.deck # 0 /\ song.deck >= 1 /\ song.deck <= 4
          THEN setDeck(decks, song.deck - 1, [song |-> <<song>>, playing |-> playing])
          ELSE decks,
          Tail(songs))

\* ---------------------------------------------------------------------
\* The songs of the session files, and the session files

SongX ==
  [artist |-> <<88>>, title |-> <<49>>, startTime |-> <<100>>, playTime |-> <<>>,
   played |-> TRUE, playing |-> TRUE, deck |-> 1]

SongXDone == [SongX EXCEPT !.playTime = <<160>>, !.playing = FALSE]

SongY ==
  [artist |-> <<89>>, title |-> <<50>>, startTime |-> <<200>>, playTime |-> <<>>,
   played |-> TRUE, playing |-> TRUE, deck |-> 2]

\* a song that declares a deck SeratoConnect does not have
SongZ ==
  [artist |-> <<90>>, title |-> <<51>>, startTime |-> <<300>>, playTime |-> <<>>,
   played |-> TRUE, playing |-> TRUE, deck |-> 7]

SessionContents == { <<>>, <<SongX, SongZ>>, <<SongXDone, SongY>> }

\* the values of options.historyMaxRows: none, one, and the default
HistoryRows == {0, 1, 100}

\* a session file: its index in History/Sessions, its mtime, whether
\* getSessionSongs resolves on it, and the songs it resolves to
SessionFiles ==
  { [path |-> path, mtime |-> mtime, ok |-> TRUE, songs |-> songs] :
      path \in {1, 2}, mtime \in {10, 20}, songs \in SessionContents }
    \cup { [path |-> 2, mtime |-> 20, ok |-> FALSE, songs |-> <<>>] }

InitConnect ==
  /\ pc = {}
  /\ mid = InitialFields
  /\ \/ \E found \in BOOLEAN, historyMaxRows \in HistoryRows :
          input = [found |-> found, hasHistory |-> FALSE, historyReadable |-> TRUE,
                   session |-> <<>>, historyMaxRows |-> historyMaxRows]
     \/ \E historyReadable \in BOOLEAN, session \in {<<>>} \cup {<<s>> : s \in SessionFiles},
           historyMaxRows \in HistoryRows :
          input = [found |-> TRUE, hasHistory |-> TRUE, historyReadable |-> historyReadable,
                   session |-> session, historyMaxRows |-> historyMaxRows]
  /\ output = [log |-> <<>>, intervals |-> {}, nextId |-> 1, stopped |-> FALSE,
               starts |-> 0, stops |-> 0, ticks |-> 0, changes |-> 0]

\* this.pollTimer = setInterval(...)
setPollTimer(fields, out) ==
  [fields |-> [fields EXCEPT !.pollTimer = out.nextId],
   out |-> [out EXCEPT !.intervals = @ \cup {out.nextId}, !.nextId = @ + 1]]

\* a detection that looks at the Serato folder only
detectionFailsFoundOnly(found, hasHistory) == ~found

\* `!detection.found` or `!detection.hasHistory`
detectionFails(found, hasHistory) == ~found \/ ~hasHistory

\* start() up to its first await
StartCall ==
  /\ output.starts < MaxStarts
  /\ LET out == [output EXCEPT !.starts = @ + 1, !.stopped = FALSE]
     IN  IF mid.isRunning THEN
           /\ output' = out
           /\ UNCHANGED <<pc, mid>>
         ELSE IF detectionFails(input.found, input.hasHistory) THEN
           /\ output' = emit(out, "error", <<>>)
           /\ UNCHANGED <<pc, mid>>
         ELSE
           /\ mid' = [mid EXCEPT !.isRunning = TRUE]
           /\ pc' = pc \cup {[id |-> out.nextId, fn |-> "start",
                             awaiting |-> "getSeratoHistory", ok |-> input.historyReadable,
                             songs |-> <<>>, isNewSession |-> FALSE,
                             path |-> 0, mtime |-> 0]}
           /\ output' = [out EXCEPT !.nextId = @ + 1]
  /\ UNCHANGED input

\* start() from the settling of getSeratoHistory to its next await or end
StartLoaded ==
  \E call \in pc :
    /\ call.fn = "start" /\ call.awaiting = "getSeratoHistory"
    /\ IF ~call.ok THEN
         /\ pc' = pc \ {call}
         /\ UNCHANGED <<mid, output>>
       ELSE
         LET out == emit(output, "ready", <<>>)
         IN  IF input.session # <<>> THEN
               /\ mid' = [mid EXCEPT !.lastSessionPath = input.session[1].path,
                                      !.lastSessionMtime = input.session[1].mtime]
               /\ pc' = (pc \ {call}) \cup
                          {[call EXCEPT !.awaiting = "getSessionSongs",
                                        !.ok = input.session[1].ok,
                                        !.songs = input.session[1].songs,
                                        !.path = input.session[1].path,
                                        !.mtime = input.session[1].mtime]}
               /\ output' = out
             ELSE
               LET set == setPollTimer([mid EXCEPT !.lastSessionPath = 0], out)
               IN  /\ mid' = set.fields
                   /\ output' = set.out
                   /\ pc' = pc \ {call}
    /\ UNCHANGED input

\* start() from the settling of getSessionSongs to its end
StartSongs ==
  \E call \in pc :
    /\ call.fn = "start" /\ call.awaiting = "getSessionSongs"
    /\ pc' = pc \ {call}
    /\ IF ~call.ok THEN UNCHANGED <<mid, output>>
       ELSE
         LET decks == updateDeckStates(mid.decks, call.songs)
             nowPlaying == getNowPlaying(decks)
             fields == IF nowPlaying = <<>> THEN [mid EXCEPT !.decks = decks]
                       ELSE [mid EXCEPT !.decks = decks,
                                        !.lastTrackHash = hashTrack(nowPlaying[1])]
             out == IF nowPlaying = <<>> THEN output
                    ELSE emit(output, "track", identity(nowPlaying[1]))
             set == setPollTimer(fields, out)
         IN  /\ mid' = set.fields
             /\ output' = set.out
    /\ UNCHANGED input

\* stop()
Stop ==
  /\ output.stops < MaxStops
  /\ mid' = InitialFields
  /\ output' = [output EXCEPT !.intervals = IF mid.pollTimer # 0 THEN @ \ {mid.pollTimer} ELSE @,
                              !.stopped = TRUE,
                              !.stops = @ + 1]
  /\ UNCHANGED <<pc, input>>

\* an interval fires: poll() up to its await or end
Tick ==
  /\ output.ticks < MaxTicks
  /\ output.intervals # {}
  /\ LET out == [emit(output, "poll", <<>>) EXCEPT !.ticks = @ + 1]
     IN  IF input.session = <<>> THEN
           /\ output' = out
           /\ UNCHANGED <<pc, mid>>
         ELSE
           LET current == input.session[1]
           IN  IF current.path # mid.lastSessionPath \/ current.mtime # mid.lastSessionMtime
               THEN
                 /\ mid' = [mid EXCEPT !.lastSessionPath = current.path,
                                        !.lastSessionMtime = current.mtime]
                 /\ pc' = pc \cup {[id |-> out.nextId, fn |-> "poll",
                                   awaiting |-> "getSessionSongs", ok |-> current.ok,
                                   songs |-> current.songs,
                                   isNewSession |-> current.path # mid.lastSessionPath,
                                   path |-> current.path, mtime |-> current.mtime]}
                 /\ output' = [out EXCEPT !.nextId = @ + 1]
               ELSE
                 /\ output' = out
                 /\ UNCHANGED <<pc, mid>>
  /\ UNCHANGED input

\* array.slice(start) with an integer start: a negative start counts from
\* the end, and -0 is 0
slice(array, start) ==
  LET len == Len(array)
      k == IF start < 0 THEN (IF len + start > 0 THEN len + start ELSE 0)
           ELSE (IF start < len THEN start ELSE len)
  IN  SubSeq(array, k + 1, len)

\* the tracks of a `history` event
historyTracks(songs, historyMaxRows) == slice(songs, 0 - historyMaxRows)

\* the `if (trackHash !== this.lastTrackHash)` of poll()
trackChanged(trackHash, lastTrackHash) == trackHash # lastTrackHash

\* poll() from the settling of getSessionSongs to its end
PollSongs ==
  \E call \in pc :
    /\ call.fn = "poll" /\ call.awaiting = "getSessionSongs"
    /\ pc' = pc \ {call}
    /\ IF ~call.ok THEN
         /\ output' = emit(output, "error", <<call.path, call.mtime>>)
         /\ UNCHANGED mid
       ELSE
         LET decks == updateDeckStates(mid.decks, call.songs)
             nowPlaying == getNowPlaying(decks)
             changed == nowPlaying # <<>>
                          /\ trackChanged(hashTrack(nowPlaying[1]), mid.lastTrackHash)
             out1 == IF changed THEN emit(output, "track", identity(nowPlaying[1])) ELSE output
             out2 == IF Len(call.songs) > 0
                     THEN emit(out1, "history",
                               [songs |-> call.songs,
                                tracks |-> historyTracks(call.songs, input.historyMaxRows)])
                     ELSE out1
             out3 == IF call.isNewSession THEN emit(out2, "session", <<>>) ELSE out2
         IN  /\ mid' = IF changed
                       THEN [mid EXCEPT !.decks = decks,
                                        !.lastTrackHash = hashTrack(nowPlaying[1])]
                       ELSE [mid EXCEPT !.decks = decks]
             /\ output' = out3
    /\ UNCHANGED input

\* Serato writes the session file, or begins another one
SessionWritten ==
  /\ output.changes < MaxChanges
  /\ input.found /\ input.hasHistory
  /\ \E session \in SessionFiles :
       /\ input.session # <<session>>
       /\ input' = [input EXCEPT !.session = <<session>>]
  /\ output' = [output EXCEPT !.changes = @ + 1]
  /\ UNCHANGED <<pc, mid>>

NextConnect ==
  \/ StartCall
  \/ StartLoaded
  \/ StartSongs
  \/ Stop
  \/ Tick
  \/ PollSongs
  \/ SessionWritten

SpecConnect == InitConnect /\ [][NextConnect]_vars

\* the events of the log with one of the types, in order
eventsOf(types) == SelectSeq(output.log, LAMBDA e : e.type \in types)

\* C18: no `poll`, `track`, `history` or `session` event is emitted after
\* stop() has returned and before start() is called again.
C18_StoppedIsSilent ==
  \A k \in 1..Len(output.log) :
    output.log[k].type \in {"poll", "track", "history", "session"} => ~output.log[k].stopped

\* C19: whenever no start() call is in flight, running is true exactly
\* when a poll interval is scheduled.
C19_RunningIffScheduled ==
  (\A call \in pc : call.fn # "start") => (mid.isRunning <=> output.intervals # {})

\* C20: of two consecutive `track` events emitted after a start() and with
\* no stop() between them, the second carries another identity (artist,
\* title, startTime) than the first.
C20_TrackOnlyOnChange ==
  LET tracks == eventsOf({"track"})
  IN  \A k \in 1..(Len(tracks) - 1) :
        (~tracks[k].stopped /\ ~tracks[k + 1].stopped /\ tracks[k].stops = tracks[k + 1].stops)
          => tracks[k].track # tracks[k + 1].track

\* the last n elements of a sequence, all of them when it has fewer
lastRows(songs, n) ==
  SubSeq(songs, (IF n < Len(songs) THEN Len(songs) - n ELSE 0) + 1, Len(songs))

\* C22: every `history` event carries at most historyMaxRows tracks, and
\* they are the last historyMaxRows songs of the session file in file
\* order, for every historyMaxRows >= 0.
C22_HistoryCapped ==
  \A k \in 1..Len(output.log) :
    output.log[k].type = "history" =>
      LET event == output.log[k].track
      IN  /\ Len(event.tracks) <= input.historyMaxRows
          /\ event.tracks = lastRows(event.songs, input.historyMaxRows)

\* C23: a start() call made while running is false and the Serato folder
\* or its History folder is missing emits one `error` event and nothing
\* else, leaves running false, schedules no interval and leaves nothing
\* of itself to run later; a start() call made while running is true
\* changes no field, emits no event and schedules nothing.
C23_StartPreconditions ==
  [][(output'.starts = output.starts + 1) =>
       /\ (~mid.isRunning /\ (~input.found \/ ~input.hasHistory)) =>
            /\ Len(output'.log) = Len(output.log) + 1
            /\ output'.log[Len(output'.log)].type = "error"
            /\ SubSeq(output'.log, 1, Len(output.log)) = output.log
            /\ ~mid'.isRunning
            /\ mid' = mid
            /\ output'.intervals = output.intervals
            /\ pc' = pc
       /\ mid.isRunning =>
            /\ mid' = mid
            /\ output'.log = output.log
            /\ output'.intervals = output.intervals
            /\ pc' = pc]_vars

\* start() was called twice with the Serato folder present and its
\* History folder missing: two `error` events and nothing else
C23_Witness ==
  /\ input.found /\ ~input.hasHistory
  /\ output.starts = 2
  /\ Len(output.log) = 2
  /\ output.log[1].type = "error" /\ output.log[2].type = "error"
  /\ ~mid.isRunning
  /\ output.intervals = {}
  /\ pc = {}

\* C27: getDeckStates holds exactly 4 deck states in every state, and
\* from stop() until start() is called again all 4 are
\* {song: null, playing: false}.
C27_DeckStates ==
  /\ Len(mid.decks) = 4
  /\ output.stopped => \A i \in 1..Len(mid.decks) : mid.decks[i] = NoDeck

\* C29: there is never more than one scheduled poll interval.
C29_OnePollTimer == Cardinality(output.intervals) <= 1

\* C30: when the reading of a changed session file has failed in a poll
\* cycle, the change stays pending: the path and mtime the next poll cycle
\* compares with are not both those of the file whose reading failed.
C30_FailedChangePending ==
  LET n == Len(output.log)
  IN  (n > 0 /\ output.log[n].type = "error" /\ output.log[n].track # <<>>) =>
        <<mid.lastSessionPath, mid.lastSessionMtime>> # output.log[n].track

\* ---------------------------------------------------------------------
\* updateDeckStates and getNowPlaying on the songs of a session file: up to
\* MaxDeckSongs songs with every combination of a deck (none, 1, 2, 4 and
\* 5), a start time, a play time and the played flag.  mid is this.decks,
\* output what getNowPlaying returns.

MaxDeckSongs == 2

DeckNumbers == {0, 1, 2, 4, 5}

\* times in milliseconds, as new Date(seconds * 1000) holds them
DeckStartTimes == {<<>>, <<0>>, <<100000>>, <<200000>>}

DeckPlayTimes == {<<>>, <<150000>>}

DeckSongs ==
  { [artist |-> <<65>>, title |-> <<48 + deck>>, startTime |-> startTime,
     playTime |-> playTime, played |-> played,
     playing |-> playingOf(played, startTime, playTime), deck |-> deck] :
      deck \in DeckNumbers, startTime \in DeckStartTimes, playTime \in DeckPlayTimes,
      played \in BOOLEAN }

InitDecks ==
  /\ pc = "start"
  /\ \E n \in 0..MaxDeckSongs : input \in [1..n -> DeckSongs]
  /\ mid = InitialFields.decks
  /\ output = <<>>

\* updateDeckStates(songs) and then getNowPlaying(), as start() and poll()
\* call them
UpdateDeckStates ==
  /\ pc = "start"
  /\ mid' = updateDeckStates(mid, input)
  /\ output' = getNowPlaying(updateDeckStates(mid, input))
  /\ pc' = "done"
  /\ UNCHANGED input

NextDecks == UpdateDeckStates

SpecDecks == InitDecks /\ [][NextDecks]_vars

\* the decks holding a song that has a start time and no play time
startedDecks == {i \in 1..Len(mid) : /\ mid[i].song # <<>>
                                      /\ mid[i].song[1].startTime # <<>>
                                      /\ mid[i].song[1].playTime = <<>>}

\* C21: getNowPlaying returns null exactly when no deck holds a song with
\* a start time and no play time; otherwise it returns the song of one of
\* those decks, and no other of them holds a song that started earlier.
C21_EarliestStarted ==
  pc = "done" =>
    /\ (output = <<>>) <=> (startedDecks = {})
    /\ output # <<>> =>
         \E i \in startedDecks :
           /\ output = mid[i].song
           /\ \A j \in startedDecks :
                mid[i].song[1].startTime[1] <= mid[j].song[1].startTime[1]

\* deck 1 started at 200 s, deck 2 at 100 s: the song of deck 2 is returned
C21_Witness ==
  /\ pc = "done"
  /\ startedDecks = {1, 2}
  /\ mid[1].song[1].startTime = <<200000>>
  /\ mid[2].song[1].startTime = <<100000>>
  /\ output = mid[2].song

\* C28: the song getNowPlaying returns, which is the song a `track` event
\* carries, has its own playing field true.
C28_NowPlayingIsPlaying ==
  (pc = "done" /\ output # <<>>) => output[1].playing

====
